---- MODULE Spec2Model ----
(***************************************************************************)
(* A model of the SIC interpreter (compiler/runtime.go): the expression    *)
(* engine with its taint bit, the statement interpreter execWork with its  *)
(* EPHEMERAL scrubbing, OMEN regions with IF OMEN and FALLS_TO_RUIN,       *)
(* CHAMBER scopes, SUMMON, WEAVE, WHILE with its cap, the goroutines of    *)
(* CHOIR, and ALTAR: the server of the process, its routes and the         *)
(* goroutines of the requests with their queries and replies.              *)
(*                                                                         *)
(* Go slices are 0-based and half-open; sequences here are 1-based, so a   *)
(* Go index i is i+1 here, `i < len(tokens)` reads `i <= Len(tokens)` and  *)
(* tokens[a:b] is SubSeq(tokens, a+1, b).                                  *)
(***************************************************************************)
EXTENDS Integers, Sequences, FiniteSets, TLC

VARIABLES
    main,            \* token body of WORK MAIN (Program.Works, fixed during a run)
    works,           \* the other Works of the program, by name (Program.Works)
    stack,           \* execWork activations, innermost last
    envs,            \* the sigil tables alive, indexed by the frames' env field
    entangledCores,  \* the global entanglement map of the current CHAMBER
    out,             \* lines printed to stdout
    ret,             \* the (value, error) the innermost execWork is returning
    choir,           \* the CHOIR block being run: its goroutines and the waiting frame
    globalAltar,     \* the ALTAR server of the process, NilAltar before the first ALTAR
    serving,         \* the goroutines of the HTTP requests, and which goroutine is running
    ev               \* what the last step did (history, read by the properties)

vars == <<main, works, stack, envs, entangledCores, out, ret, choir, globalAltar, serving, ev>>

(***************************************************************************)
(* Bounds of the model.                                                    *)
(***************************************************************************)
MaxStmts == 3
MaxNum == 40

(***************************************************************************)
(* Tokens (compiler/tokens.go).                                            *)
(***************************************************************************)
Tok(ty) == [t |-> ty, lx |-> ty]
Id(n) == [t |-> "IDENT", lx |-> n]
Str(s) == [t |-> "STRING", lx |-> s]
Num(s) == [t |-> "NUM", lx |-> s]

(***************************************************************************)
(* Text and numbers.  Sigil values are text at rest; the Go library calls  *)
(* that read them are modelled on the strings the programs of the model    *)
(* can produce: decimal integers within MaxNum, and a table of the strings *)
(* that carry blanks or upper case.                                        *)
(***************************************************************************)
Digits == <<"0", "1", "2", "3", "4", "5", "6", "7", "8", "9">>

RECURSIVE NatStr(_)
NatStr(n) == IF n < 10 THEN Digits[n + 1] ELSE NatStr(n \div 10) \o Digits[(n % 10) + 1]

\* fmt.Sprintf("%d", n), and "%g" of a float64 holding an integer
FormatInt(n) == IF n < 0 THEN "-" \o NatStr(0 - n) ELSE NatStr(n)

NumDomain == (0 - MaxNum) .. MaxNum
NumOf == [s \in {FormatInt(n) : n \in NumDomain} |-> CHOOSE n \in NumDomain : FormatInt(n) = s]

TrimTable == (" 5" :> "5") @@ ("5 " :> "5") @@ (" " :> "")
TrimSpace(s) == IF s \in DOMAIN TrimTable THEN TrimTable[s] ELSE s

LowerTable == ("TRUE" :> "true") @@ ("True" :> "true") @@ ("FALSE" :> "false") @@ ("False" :> "false")
ToLower(s) == IF s \in DOMAIN LowerTable THEN LowerTable[s] ELSE s
UpperTable == ("name" :> "NAME") @@ ("Name" :> "NAME") @@ ("lang" :> "LANG")
ToUpper(s) == IF s \in DOMAIN UpperTable THEN UpperTable[s]
              ELSE IF \E u \in DOMAIN LowerTable : LowerTable[u] = s
              THEN (IF s = "true" THEN "TRUE" ELSE "FALSE") ELSE s
EqualFold(a, b) == ToLower(a) = ToLower(b) \/ ToUpper(a) = ToUpper(b)

\* strconv.ParseFloat(s, 64)
ParseFloat(s) == IF s \in DOMAIN NumOf THEN [ok |-> TRUE, f |-> NumOf[s]] ELSE [ok |-> FALSE, f |-> 0]

\* byte order of the texts the model compares with < <= > >=
StrOrder == <<"", "1", "2", "5", "7", "abc", "sec", "true">>
StrRank(s) == IF \E k \in 1..Len(StrOrder) : StrOrder[k] = s
              THEN CHOOSE k \in 1..Len(StrOrder) : StrOrder[k] = s ELSE 0
StrLess(a, b) == StrRank(a) < StrRank(b)

Abs(n) == IF n < 0 THEN 0 - n ELSE n
\* Go's % on int64 truncates toward zero
GoMod(a, b) == IF a < 0 THEN 0 - (Abs(a) % Abs(b)) ELSE a % Abs(b)
\* float64 division; the programs of the model keep quotients integral
GoDiv(a, b) == IF (a < 0) = (b < 0) THEN Abs(a) \div Abs(b) ELSE 0 - (Abs(a) \div Abs(b))

(***************************************************************************)
(* The sigil environment (runtime.go 37-217).                              *)
(***************************************************************************)
sicInvisibleMetaPrefix == "__SIC_META_INVISIBLE__"
omenPrefix == "__OMEN__:"
sicRedacted == "[REDACTED]"

\* the identifiers the programs of the model use
Names == {"a", "b", "e", "p", "q", "r", "s", "x", "zz"}

Has(sigils, k) == k \in DOMAIN sigils
setSigil(sigils, name, v) == (name :> v) @@ sigils
getSigil(sigils, name) == IF Has(sigils, name) THEN [v |-> sigils[name], ok |-> TRUE]
                          ELSE [v |-> "", ok |-> FALSE]

isInvisibleSigil(sigils, name) == name # "" /\ Has(sigils, sicInvisibleMetaPrefix \o name)
markInvisibleSigil(sigils, name) ==
    IF name = "" THEN sigils ELSE setSigil(sigils, sicInvisibleMetaPrefix \o name, "1")
setSigilInvisible(sigils, name, v) == markInvisibleSigil(setSigil(sigils, name, v), name)

\* strings.HasPrefix(k, sicInvisibleMetaPrefix), over the keys the model can hold
IsMetaKey(k) == \E n \in Names : k = sicInvisibleMetaPrefix \o n

cloneVisibleSigils_all(dst, src) ==
    [k \in DOMAIN dst \cup {x \in DOMAIN src : ~IsMetaKey(x)} |->
        IF k \in DOMAIN src /\ ~IsMetaKey(k) THEN src[k] ELSE dst[k]]

cloneVisibleSigils(dst, src) ==
    LET copied == {k \in DOMAIN src : ~IsMetaKey(k) /\ ~isInvisibleSigil(src, k)}
    IN  [k \in DOMAIN dst \cup copied |-> IF k \in copied THEN src[k] ELSE dst[k]]

redactIfTainted_raw(val, tainted) == val

redactIfTainted(val, tainted) == IF tainted THEN sicRedacted ELSE val

cloneSigils(in) == in

raiseOmen(sigils, name) == setSigil(sigils, omenPrefix \o name, "1")

EmptyTable == [k \in {} |-> ""]

(***************************************************************************)
(* Expression values (runtime.go 295-391).                                 *)
(***************************************************************************)
makeText(s) == [kind |-> "text", s |-> s, n |-> 0, b |-> FALSE, tainted |-> FALSE]
makeInt(i) == [kind |-> "int", s |-> "", n |-> i, b |-> FALSE, tainted |-> FALSE]
makeFloat(f) == [kind |-> "float", s |-> "", n |-> f, b |-> FALSE, tainted |-> FALSE]
makeBool(b) == [kind |-> "bool", s |-> "", n |-> 0, b |-> b, tainted |-> FALSE]

String(v) ==
    CASE v.kind = "int" -> FormatInt(v.n)
      [] v.kind = "float" -> FormatInt(v.n)
      [] v.kind = "bool" -> (IF v.b THEN "true" ELSE "false")
      [] OTHER -> v.s

withTaint(v, t) == [v EXCEPT !.tainted = t]

combineTaint_leftOnly(o, a, b) == [o EXCEPT !.tainted = a.tainted]

combineTaint(o, a, b) == [o EXCEPT !.tainted = a.tainted \/ b.tainted]

asFloat(v) ==
    CASE v.kind = "int" -> [ok |-> TRUE, f |-> v.n]
      [] v.kind = "float" -> [ok |-> TRUE, f |-> v.n]
      [] v.kind = "text" -> ParseFloat(TrimSpace(v.s))
      [] OTHER -> [ok |-> TRUE, f |-> IF v.b THEN 1 ELSE 0]

asBool(v) ==
    CASE v.kind = "bool" -> v.b
      [] v.kind = "int" -> v.n # 0
      [] v.kind = "float" -> v.n # 0
      [] OTHER -> LET s == TrimSpace(ToLower(v.s))
                  IN  IF s = "true" THEN TRUE ELSE IF s = "false" THEN FALSE ELSE s # ""

\* the closure `coerce` of parsePrimary
coerce(val) ==
    LET s == TrimSpace(val)
    IN  IF EqualFold(s, "true") THEN makeBool(TRUE)
        ELSE IF EqualFold(s, "false") THEN makeBool(FALSE)
        ELSE IF ParseFloat(s).ok THEN makeFloat(ParseFloat(s).f)
        ELSE makeText(val)

(***************************************************************************)
(* The Works of the program besides MAIN (Program.Works, WorkDecl).        *)
(*   WORK F SIGIL p:  LET a BE "9". LET q BE p. THUS WE ANSWER p. ENDWORK  *)
(*   WORK G SIGIL p:  LET EPHEMERAL e BE p. SEND BACK p. ENDWORK           *)
(*   WORK H:          RAISE OMEN "x". SUMMON WORK F WITH SIGIL "in".       *)
(*                    SAY: "h". ENDWORK                                    *)
(*   WORK A:          SAY: "A". ENDWORK                                    *)
(*   WORK B:          SAY: "B". SAY: a. ENDWORK   (fails when its caller   *)
(*                    has no visible a)                                    *)
(*   WORK C:          SAY: "C". ENDWORK                                    *)
(*   WORK E:          ENTANGLE k. ENDWORK                                  *)
(*   WORK R:          RELEASE k. ENDWORK                                   *)
(*   WORK T p:        SAY: p. LET q BE p + "!". SAY: q. ENDWORK            *)
(*   WORK SEALED V p SEAL "key":  SAY: "vault". ENDWORK                    *)
(***************************************************************************)
BodyF == <<Tok("LET"), Id("a"), Tok("BE"), Str("9"), Tok("DOT"), Tok("NEWLINE"),
           Tok("LET"), Id("q"), Tok("BE"), Id("p"), Tok("DOT"), Tok("NEWLINE"),
           Tok("THUS"), Tok("WE"), Tok("ANSWER"), Id("p"), Tok("DOT"), Tok("NEWLINE")>>
BodyG == <<Tok("LET"), Tok("EPHEMERAL"), Id("e"), Tok("BE"), Id("p"), Tok("DOT"), Tok("NEWLINE"),
           Id("SEND"), Id("BACK"), Id("p"), Tok("DOT"), Tok("NEWLINE")>>
BodyH == <<Tok("RAISE"), Tok("OMEN"), Str("x"), Tok("DOT"), Tok("NEWLINE"),
           Tok("SUMMON"), Tok("WORK"), Id("F"), Tok("WITH"), Tok("SIGIL"), Str("in"), Tok("DOT"), Tok("NEWLINE"),
           Tok("SAY"), Tok("COLON"), Str("h"), Tok("DOT"), Tok("NEWLINE")>>
BodyA == <<Tok("SAY"), Tok("COLON"), Str("A"), Tok("DOT"), Tok("NEWLINE")>>
BodyB == <<Tok("SAY"), Tok("COLON"), Str("B"), Tok("DOT"), Tok("NEWLINE"),
           Tok("SAY"), Tok("COLON"), Id("a"), Tok("DOT"), Tok("NEWLINE")>>
BodyC == <<Tok("SAY"), Tok("COLON"), Str("C"), Tok("DOT"), Tok("NEWLINE")>>
BodyE == <<Tok("ENTANGLE"), Id("k"), Tok("DOT"), Tok("NEWLINE")>>
BodyR == <<Tok("RELEASE"), Id("k"), Tok("DOT"), Tok("NEWLINE")>>

BodyT == <<Tok("SAY"), Tok("COLON"), Id("p"), Tok("DOT"), Tok("NEWLINE"),
           Tok("LET"), Id("q"), Tok("BE"), Id("p"), Tok("PLUS"), Str("!"), Tok("DOT"), Tok("NEWLINE"),
           Tok("SAY"), Tok("COLON"), Id("q"), Tok("DOT"), Tok("NEWLINE")>>
BodyV == <<Tok("SAY"), Tok("COLON"), Str("vault"), Tok("DOT"), Tok("NEWLINE")>>

\* the Work of a route: LET b BE a. LET a BE "w". THUS WE ANSWER b.
BodyW == <<Tok("LET"), Id("b"), Tok("BE"), Id("a"), Tok("DOT"), Tok("NEWLINE"),
           Tok("LET"), Id("a"), Tok("BE"), Str("w"), Tok("DOT"), Tok("NEWLINE"),
           Tok("THUS"), Tok("WE"), Tok("ANSWER"), Id("b"), Tok("DOT"), Tok("NEWLINE")>>

\* Works that activate the service.  AltarOf(port, method, path, reply) is
\* ALTAR AT :port: ROUTE method path TO SEND BACK reply.
\* ROUTE GET "/k" + reply TO SEND BACK reply. ENDALTAR.
AltarOf(port, method, path, reply) ==
    <<Tok("ALTAR"), Tok("AT"), Tok("COLON"), Num(port), Tok("COLON"), Tok("NEWLINE"),
      Tok("ROUTE"), Tok(method), Str(path), Id("TO"), Tok("SEND"), Tok("BACK"), Str(reply),
      Tok("DOT"), Tok("NEWLINE"),
      Tok("ROUTE"), Tok("GET"), Str("/k" \o reply), Id("TO"), Tok("SEND"), Tok("BACK"), Str(reply),
      Tok("DOT"), Tok("NEWLINE"),
      Tok("ENDALTAR"), Tok("DOT"), Tok("NEWLINE")>>
BodyK1 == AltarOf("1", "GET", "/a", "1")
BodyK2 == AltarOf("1", "GET", "/a", "2")
BodyK3 == AltarOf("2", "GET", "/a", "3")
BodyK4 == AltarOf("1", "GET", "/b", "4")

\* WorkDecl (parser.go 28-36) of a Work that is not SEALED
Work(name, params, body) ==
    [Name |-> name, SigilParams |-> params, Body |-> body, Sealed |-> FALSE, SealToken |-> ""]

\* parseWork 213-215 and 255-263: WORK SEALED name SEAL "token":
SealedWork(name, params, body, token) ==
    [Work(name, params, body) EXCEPT !.Sealed = TRUE, !.SealToken = token]

Works == ("F" :> Work("F", <<"p">>, BodyF)) @@
         ("G" :> Work("G", <<"p">>, BodyG)) @@
         ("H" :> Work("H", <<>>, BodyH)) @@
         ("A" :> Work("A", <<>>, BodyA)) @@
         ("B" :> Work("B", <<>>, BodyB)) @@
         ("C" :> Work("C", <<>>, BodyC)) @@
         ("E" :> Work("E", <<>>, BodyE)) @@
         ("R" :> Work("R", <<>>, BodyR)) @@
         ("T" :> Work("T", <<"p">>, BodyT)) @@
         ("W" :> Work("W", <<>>, BodyW)) @@
         ("K1" :> Work("K1", <<>>, BodyK1)) @@
         ("K2" :> Work("K2", <<>>, BodyK2)) @@
         ("K3" :> Work("K3", <<>>, BodyK3)) @@
         ("K4" :> Work("K4", <<>>, BodyK4)) @@
         ("V" :> SealedWork("V", <<"p">>, BodyV, "key"))

\* findWork: nil when no Work has the name
findWork(name) == IF name \in DOMAIN works THEN <<works[name]>> ELSE <<>>

(***************************************************************************)
(* Results of the evaluators: a value and the next index, an error, or a   *)
(* SUMMON primary whose callee has yet to run.  The results of the SUMMONs *)
(* of the statement being executed that have already run are in sres, in   *)
(* the order the expression meets them.                                    *)
(***************************************************************************)
Ok(v, i) == [st |-> "ok", v |-> v, i |-> i]
Err(m) == [st |-> "err", msg |-> m]
NeedSummon(i) == [st |-> "summon", at |-> i]

TypeAt(tokens, i) == IF i >= 1 /\ i <= Len(tokens) THEN tokens[i].t ELSE "EOF"
NSummonBefore(tokens, i) == Cardinality({k \in 1..(i - 1) : tokens[k].t = "SUMMON"})

\* evalSummonExpr up to the lookup of the target: the header of the call
summonHeader(tokens, start, sigils) ==
    IF TypeAt(tokens, start + 1) # "WORK" THEN Err("SUMMON: expected WORK after SUMMON")
    ELSE IF TypeAt(tokens, start + 2) # "IDENT" THEN Err("SUMMON: expected WORK name after WORK")
    ELSE
      LET targetName == tokens[start + 2].lx
          i3 == start + 3
          hasWith == TypeAt(tokens, i3) = "WITH"
          ia == IF hasWith THEN (IF TypeAt(tokens, i3 + 1) = "SIGIL" THEN i3 + 2 ELSE i3 + 1) ELSE i3
          at == TypeAt(tokens, ia)
          argFromSigil == IF hasWith /\ at = "IDENT" THEN tokens[ia].lx ELSE ""
          argVal == IF hasWith /\ at = "STRING" THEN tokens[ia].lx
                    ELSE IF hasWith /\ at = "IDENT" THEN getSigil(sigils, argFromSigil).v
                    ELSE ""
          argWasInvisible == hasWith /\ at = "IDENT" /\ isInvisibleSigil(sigils, argFromSigil)
          iend == IF hasWith THEN ia + 1 ELSE i3
      IN  IF hasWith /\ at = "EOF" THEN Err("SUMMON: missing argument after WITH")
          ELSE IF hasWith /\ at \notin {"STRING", "IDENT", "UNUSED"}
               THEN Err("SUMMON: unsupported argument token")
          ELSE IF findWork(targetName) = <<>> THEN Err("SUMMON: WORK not found")
          ELSE [st |-> "ok", target |-> targetName, argVal |-> argVal,
                argFromSigil |-> argFromSigil, argWasInvisible |-> argWasInvisible,
                consumed |-> iend - start]

(***************************************************************************)
(* The expression engine (runtime.go 542-943), by precedence climbing.     *)
(* Each level is its function, the loop over its operators (which returns  *)
(* a failed left operand as it is) and the body of that loop.              *)
(***************************************************************************)
RECURSIVE parseOr(_, _, _, _), parseOrLoop(_, _, _, _)
RECURSIVE parseAnd(_, _, _, _), parseAndLoop(_, _, _, _)
RECURSIVE parseEquality(_, _, _, _), parseEqualityLoop(_, _, _, _)
RECURSIVE parseComparison(_, _, _, _), parseComparisonLoop(_, _, _, _)
RECURSIVE parseTerm(_, _, _, _), parseTermLoop(_, _, _, _)
RECURSIVE parseFactor(_, _, _, _), parseFactorLoop(_, _, _, _)
RECURSIVE parseUnary(_, _, _, _), parsePrimary(_, _, _, _)

\* the sigil read shared by the reference forms SIGIL name, $name and name
readSigil(sigils, name, next) ==
    IF ~Has(sigils, name) THEN Err("unknown SIGIL " \o name)
    ELSE Ok(withTaint(coerce(sigils[name]), isInvisibleSigil(sigils, name)), next)

\* parsePrimary, case TOK_LPAREN, after the inner expression
closeParen(tokens, inner) ==
    IF inner.st # "ok" THEN inner
    ELSE IF TypeAt(tokens, inner.i) # "RPAREN" THEN Err("expected ')' in expression")
    ELSE Ok(inner.v, inner.i + 1)

\* parsePrimary, case TOK_SUMMON
summonPrimary(tokens, i, h, sres) ==
    IF h.st = "err" THEN h
    ELSE IF NSummonBefore(tokens, i) + 1 <= Len(sres)
         THEN Ok(makeText(sres[NSummonBefore(tokens, i) + 1]), i + h.consumed)
    ELSE NeedSummon(i)

IsGlue(tok) ==
    \/ tok.t \in {"FOR", "SECONDS"}
    \/ tok.t = "IDENT" /\ (EqualFold(tok.lx, "BY") \/ EqualFold(tok.lx, "FOR") \/ EqualFold(tok.lx, "SECONDS"))

parsePrimary(tokens, i, sigils, sres) ==
    IF i > Len(tokens) THEN Err("unexpected end of expression")
    ELSE IF IsGlue(tokens[i]) THEN parsePrimary(tokens, i + 1, sigils, sres)
    ELSE
      CASE tokens[i].t = "STRING" -> Ok(makeText(tokens[i].lx), i + 1)
        [] tokens[i].t \in {"SIGIL", "DOLLAR"} ->
              IF TypeAt(tokens, i + 1) # "IDENT"
              THEN Err("expected SIGIL name after " \o tokens[i].t)
              ELSE readSigil(sigils, tokens[i + 1].lx, i + 2)
        [] tokens[i].t = "NUM" ->
              IF TrimSpace(tokens[i].lx) \in DOMAIN NumOf
              THEN Ok(makeInt(NumOf[TrimSpace(tokens[i].lx)]), i + 1)
              ELSE Err("invalid int literal")
        [] tokens[i].t = "IDENT" -> readSigil(sigils, tokens[i].lx, i + 1)
        [] tokens[i].t = "LPAREN" -> closeParen(tokens, parseOr(tokens, i + 1, sigils, sres))
        [] tokens[i].t = "SUMMON" -> summonPrimary(tokens, i, summonHeader(tokens, i, sigils), sres)
        [] OTHER -> Err("unexpected " \o tokens[i].t \o " in expression")

\* parseUnary, the operand negated
negate(val) ==
    IF val.st # "ok" THEN val
    ELSE IF ~asFloat(val.v).ok THEN Err("cannot negate non-numeric value")
    ELSE Ok(withTaint(makeFloat(0 - asFloat(val.v).f), val.v.tainted), val.i)

\* parseUnary, NOT of the operand
notOf(val) ==
    IF val.st # "ok" THEN val
    ELSE Ok(withTaint(makeBool(~asBool(val.v)), val.v.tainted), val.i)

parseUnary(tokens, i, sigils, sres) ==
    IF i > Len(tokens) THEN Err("unexpected end of expression")
    ELSE IF tokens[i].t = "MINUS" THEN negate(parseUnary(tokens, i + 1, sigils, sres))
    ELSE IF tokens[i].t = "NOT" THEN notOf(parseUnary(tokens, i + 1, sigils, sres))
    ELSE parsePrimary(tokens, i, sigils, sres)

factorOf(op, l, r) ==
    CASE op = "STAR" -> makeFloat(l * r)
      [] op = "SLASH" -> makeFloat(GoDiv(l, r))
      [] OTHER -> makeInt(GoMod(l, r))

factorStep(op, left, right) ==
    IF right.st # "ok" THEN right
    ELSE IF ~asFloat(left.v).ok \/ ~asFloat(right.v).ok
         THEN Err("non-numeric value in arithmetic expression")
    ELSE IF op = "SLASH" /\ asFloat(right.v).f = 0 THEN Err("division by zero")
    ELSE IF op = "PERCENT" /\ asFloat(right.v).f = 0 THEN Err("modulo by zero")
    ELSE Ok(combineTaint(factorOf(op, asFloat(left.v).f, asFloat(right.v).f), left.v, right.v), right.i)

parseFactorLoop(tokens, left, sigils, sres) ==
    IF left.st # "ok" \/ TypeAt(tokens, left.i) \notin {"STAR", "SLASH", "PERCENT"} THEN left
    ELSE parseFactorLoop(tokens,
            factorStep(tokens[left.i].t, left, parseUnary(tokens, left.i + 1, sigils, sres)),
            sigils, sres)

parseFactor(tokens, i, sigils, sres) ==
    parseFactorLoop(tokens, parseUnary(tokens, i, sigils, sres), sigils, sres)

termStep_concat(op, left, right) ==
    IF right.st # "ok" THEN right
    ELSE IF op = "PLUS"
         THEN Ok(combineTaint(makeText(String(left.v) \o String(right.v)), left.v, right.v), right.i)
    ELSE Err("cannot apply '-' to non-numeric values")

termStep(op, left, right) ==
    IF right.st # "ok" THEN right
    ELSE IF asFloat(left.v).ok /\ asFloat(right.v).ok THEN
         Ok(combineTaint(IF op = "PLUS" THEN makeFloat(asFloat(left.v).f + asFloat(right.v).f)
                         ELSE makeFloat(asFloat(left.v).f - asFloat(right.v).f),
                         left.v, right.v), right.i)
    ELSE IF op = "PLUS"
         THEN Ok(combineTaint(makeText(String(left.v) \o String(right.v)), left.v, right.v), right.i)
    ELSE Err("cannot apply '-' to non-numeric values")

parseTermLoop(tokens, left, sigils, sres) ==
    IF left.st # "ok" \/ TypeAt(tokens, left.i) \notin {"PLUS", "MINUS"} THEN left
    ELSE parseTermLoop(tokens,
            termStep(tokens[left.i].t, left, parseFactor(tokens, left.i + 1, sigils, sres)),
            sigils, sres)

parseTerm(tokens, i, sigils, sres) ==
    parseTermLoop(tokens, parseFactor(tokens, i, sigils, sres), sigils, sres)

numLess(op, l, r) ==
    CASE op = "LT" -> l < r
      [] op = "LTE" -> l <= r
      [] op = "GT" -> l > r
      [] OTHER -> l >= r

strLess(op, ls, rs) ==
    CASE op = "LT" -> StrLess(ls, rs)
      [] op = "LTE" -> StrLess(ls, rs) \/ ls = rs
      [] op = "GT" -> StrLess(rs, ls)
      [] OTHER -> StrLess(rs, ls) \/ ls = rs

comparisonStep(op, left, right) ==
    IF right.st # "ok" THEN right
    ELSE Ok(combineTaint(makeBool(IF asFloat(left.v).ok /\ asFloat(right.v).ok
                                  THEN numLess(op, asFloat(left.v).f, asFloat(right.v).f)
                                  ELSE strLess(op, String(left.v), String(right.v))),
                         left.v, right.v), right.i)

parseComparisonLoop(tokens, left, sigils, sres) ==
    IF left.st # "ok" \/ TypeAt(tokens, left.i) \notin {"LT", "LTE", "GT", "GTE"} THEN left
    ELSE parseComparisonLoop(tokens,
            comparisonStep(tokens[left.i].t, left, parseTerm(tokens, left.i + 1, sigils, sres)),
            sigils, sres)

parseComparison(tokens, i, sigils, sres) ==
    parseComparisonLoop(tokens, parseTerm(tokens, i, sigils, sres), sigils, sres)

valuesEqual(l, r) ==
    IF asFloat(l).ok /\ asFloat(r).ok THEN asFloat(l).f = asFloat(r).f ELSE String(l) = String(r)

equalityStep(op, left, right) ==
    IF right.st # "ok" THEN right
    ELSE Ok(combineTaint(makeBool((op = "EQ") = valuesEqual(left.v, right.v)), left.v, right.v), right.i)

parseEqualityLoop(tokens, left, sigils, sres) ==
    IF left.st # "ok" \/ TypeAt(tokens, left.i) \notin {"EQ", "NEQ"} THEN left
    ELSE parseEqualityLoop(tokens,
            equalityStep(tokens[left.i].t, left, parseComparison(tokens, left.i + 1, sigils, sres)),
            sigils, sres)

parseEquality(tokens, i, sigils, sres) ==
    parseEqualityLoop(tokens, parseComparison(tokens, i, sigils, sres), sigils, sres)

andStep(left, right) ==
    IF right.st # "ok" THEN right
    ELSE Ok(combineTaint(makeBool(asBool(left.v) /\ asBool(right.v)), left.v, right.v), right.i)

parseAndLoop(tokens, left, sigils, sres) ==
    IF left.st # "ok" \/ TypeAt(tokens, left.i) # "AND" THEN left
    ELSE parseAndLoop(tokens, andStep(left, parseEquality(tokens, left.i + 1, sigils, sres)),
                      sigils, sres)

parseAnd(tokens, i, sigils, sres) ==
    parseAndLoop(tokens, parseEquality(tokens, i, sigils, sres), sigils, sres)

orStep(left, right) ==
    IF right.st # "ok" THEN right
    ELSE Ok(combineTaint(makeBool(asBool(left.v) \/ asBool(right.v)), left.v, right.v), right.i)

parseOrLoop(tokens, left, sigils, sres) ==
    IF left.st # "ok" \/ TypeAt(tokens, left.i) # "OR" THEN left
    ELSE parseOrLoop(tokens, orStep(left, parseAnd(tokens, left.i + 1, sigils, sres)), sigils, sres)

parseOr(tokens, i, sigils, sres) ==
    parseOrLoop(tokens, parseAnd(tokens, i, sigils, sres), sigils, sres)

(***************************************************************************)
(* Entry points of the expression engine (runtime.go 402-540).             *)
(***************************************************************************)
RECURSIVE normalizeFrom(_, _)
normalizeFrom(tokens, i) ==
    IF i > Len(tokens) THEN <<>>
    ELSE IF tokens[i].t = "SIGIL" /\ EqualFold(tokens[i].lx, "SIGIL") THEN
         (IF TypeAt(tokens, i + 1) = "IDENT"
          THEN <<tokens[i + 1]>> \o normalizeFrom(tokens, i + 2)
          ELSE <<tokens[i]>> \o normalizeFrom(tokens, i + 1))
    ELSE IF tokens[i].t = "IDENT" /\ EqualFold(tokens[i].lx, "EQUALS")
         THEN <<[t |-> "EQ", lx |-> "=="]>> \o normalizeFrom(tokens, i + 1)
    ELSE IF tokens[i].t \in {"FOR", "SECONDS"} THEN normalizeFrom(tokens, i + 1)
    ELSE <<tokens[i]>> \o normalizeFrom(tokens, i + 1)

normalizeExprTokens(tokens) == normalizeFrom(tokens, 1)

\* the expression proper: up to the first stop token
StopTypes == {"DOT", "COLON", "NEWLINE", "ENDWEAVE", "ENDWORK", "FROM"}
RECURSIVE firstStop(_, _)
firstStop(tokens, i) ==
    IF i <= Len(tokens) /\ tokens[i].t \notin StopTypes THEN firstStop(tokens, i + 1) ELSE i
sliced(tokens) == SubSeq(tokens, 1, firstStop(tokens, 1) - 1)

\* the value of the parsed expression as the entry point returns it
stringResult(nt, val) ==
    CASE val.st = "ok" -> [st |-> "ok", s |-> String(val.v), tainted |-> val.v.tainted]
      [] val.st = "summon" -> [st |-> "summon", toks |-> nt, at |-> val.at]
      [] OTHER -> val

boolResult(nt, val) ==
    CASE val.st = "ok" -> [st |-> "ok", b |-> asBool(val.v)]
      [] val.st = "summon" -> [st |-> "summon", toks |-> nt, at |-> val.at]
      [] OTHER -> val

evalNormalized(nt, sigils, sres) == stringResult(nt, parseOr(nt, 1, sigils, sres))

evalStringExprTainted(tokens, sigils, sres) ==
    IF sliced(tokens) = <<>> THEN [st |-> "ok", s |-> "", tainted |-> FALSE]
    ELSE evalNormalized(normalizeExprTokens(sliced(tokens)), sigils, sres)

\* evalStringExpr returns val.String() and drops val.tainted
dropTaint(r) == IF r.st = "ok" THEN [st |-> "ok", s |-> r.s] ELSE r

evalStringExpr(tokens, sigils, sres) == dropTaint(evalStringExprTainted(tokens, sigils, sres))

evalBoolNormalized(nt, sigils, sres) == boolResult(nt, parseOr(nt, 1, sigils, sres))

evalBoolExpr(tokens, sigils, sres) ==
    IF tokens = <<>> THEN [st |-> "ok", b |-> FALSE]
    ELSE evalBoolNormalized(normalizeExprTokens(tokens), sigils, sres)

(***************************************************************************)
(* Scans shared by the statement handlers.                                 *)
(***************************************************************************)
RECURSIVE skipNewlines(_, _)
skipNewlines(tokens, i) ==
    IF i <= Len(tokens) /\ tokens[i].t = "NEWLINE" THEN skipNewlines(tokens, i + 1) ELSE i

\* `for i < len(tokens) && type != DOT && type != NEWLINE && type != ENDWORK { i++ }`
RECURSIVE stmtEnd(_, _)
stmtEnd(tokens, i) ==
    IF i <= Len(tokens) /\ tokens[i].t \notin {"DOT", "NEWLINE", "ENDWORK"}
    THEN stmtEnd(tokens, i + 1) ELSE i

\* `if i < len(tokens) && tokens[i].Type == TOK_DOT { i++ }`
skipDot(tokens, i) == IF TypeAt(tokens, i) = "DOT" THEN i + 1 ELSE i

\* the tokens from i to the end of the statement, and the index after its DOT
exprAt(tokens, i) == SubSeq(tokens, i, stmtEnd(tokens, i) - 1)
afterStmt(tokens, i) == skipDot(tokens, stmtEnd(tokens, i))

cleanWorkBody(raw) == IF raw # <<>> /\ raw[1].t = "NEWLINE" THEN Tail(raw) ELSE raw

IsSigilWord(tokens, i) ==
    TypeAt(tokens, i) = "SIGIL" \/ (TypeAt(tokens, i) = "IDENT" /\ EqualFold(tokens[i].lx, "SIGIL"))

\* parseSigilTarget, once past the optional SIGIL (i1) and the optional $ (i2)
sigilTargetAt(tokens, i1, i2) ==
    IF i1 > Len(tokens) THEN Err("expected name after SIGIL")
    ELSE IF i2 > Len(tokens) /\ i2 # i1 THEN Err("expected name after $")
    ELSE IF TypeAt(tokens, i2) # "IDENT" THEN Err("expected SIGIL name")
    ELSE IF tokens[i2].lx = "" THEN Err("empty SIGIL name")
    ELSE [st |-> "ok", name |-> tokens[i2].lx, next |-> i2 + 1]

afterDollar(tokens, i1) == IF TypeAt(tokens, i1) = "DOLLAR" THEN i1 + 1 ELSE i1

parseSigilTarget(tokens, i) ==
    IF i > Len(tokens) THEN Err("expected SIGIL name")
    ELSE IF IsSigilWord(tokens, i) THEN sigilTargetAt(tokens, i + 1, afterDollar(tokens, i + 1))
    ELSE sigilTargetAt(tokens, i, afterDollar(tokens, i))

(***************************************************************************)
(* The statement handlers, as functions of the tokens of the running       *)
(* frame, the index of the statement and the sigil table: what the handler *)
(* returns and what it leaves in the table.  A handler comes as its header *)
(* and, under the same name with a suffix, what it does with the value of  *)
(* its expression.                                                         *)
(***************************************************************************)
execSayOf(expr, next, r) ==
    IF r.st # "ok" THEN r
    ELSE [st |-> "ok", msg |-> r.s, tainted |-> r.tainted, expr |-> expr,
          line |-> "[SIC SAY] " \o redactIfTainted(r.s, r.tainted), next |-> next]

execSay(tokens, i, sigils, sres) ==
    IF TypeAt(tokens, i + 1) # "COLON" THEN Err("SAY: expected COLON after SAY")
    ELSE execSayOf(exprAt(tokens, i + 2), afterStmt(tokens, i + 2),
                   evalStringExprTainted(exprAt(tokens, i + 2), sigils, sres))

IsBE(tokens, i) ==
    TypeAt(tokens, i) = "BE" \/ (TypeAt(tokens, i) = "IDENT" /\ EqualFold(tokens[i].lx, "BE"))

\* unmarkInvisibleSigil 84-89
unmarkInvisibleSigil(sigils, name) ==
    [k \in DOMAIN sigils \ {sicInvisibleMetaPrefix \o name} |-> sigils[k]]

execLetOf_unmark(sigils, name, isEphemeral, isInvisible, next, r) ==
    IF r.st # "ok" THEN r
    ELSE [st |-> "ok", name |-> name, val |-> r.s, isEphemeral |-> isEphemeral,
          sigils |-> IF isInvisible THEN setSigilInvisible(sigils, name, r.s)
                     ELSE unmarkInvisibleSigil(setSigil(sigils, name, r.s), name),
          next |-> next]

\* execLet 1465-1491: the value bound, with the visibility asked for
execLetOf(sigils, name, isEphemeral, isInvisible, next, r) ==
    IF r.st # "ok" THEN r
    ELSE [st |-> "ok", name |-> name, val |-> r.s, isEphemeral |-> isEphemeral,
          sigils |-> IF isInvisible THEN setSigilInvisible(sigils, name, r.s)
                     ELSE setSigil(sigils, name, r.s),
          next |-> next]

execLetTo(tokens, sigils, sres, isEphemeral, isInvisible, target) ==
    IF target.st # "ok" THEN Err("LET: " \o target.msg)
    ELSE IF ~IsBE(tokens, target.next) THEN Err("LET: expected BE after SIGIL " \o target.name)
    ELSE execLetOf(sigils, target.name, isEphemeral, isInvisible, afterStmt(tokens, target.next + 1),
                   evalStringExpr(exprAt(tokens, target.next + 1), sigils, sres))

IsInvisibleWord(tokens, i) == TypeAt(tokens, i) = "IDENT" /\ EqualFold(tokens[i].lx, "INVISIBLE")

\* execLet past the optional EPHEMERAL, at i1
execLetAt(tokens, i1, sigils, sres, isEphemeral) ==
    execLetTo(tokens, sigils, sres, isEphemeral, IsInvisibleWord(tokens, i1),
              parseSigilTarget(tokens, IF IsInvisibleWord(tokens, i1) THEN i1 + 1 ELSE i1))

execLet(tokens, i, sigils, sres) ==
    IF TypeAt(tokens, i + 1) = "EPHEMERAL" THEN execLetAt(tokens, i + 2, sigils, sres, TRUE)
    ELSE execLetAt(tokens, i + 1, sigils, sres, FALSE)

execEphemeralSigilOf(sigils, name, next, r) ==
    IF r.st # "ok" THEN r
    ELSE [st |-> "ok", name |-> name, val |-> r.s, sigils |-> setSigil(sigils, name, r.s), next |-> next]

execEphemeralSigilTo(tokens, sigils, sres, target) ==
    IF target.st # "ok" THEN Err("EPHEMERAL: " \o target.msg)
    ELSE IF ~(TypeAt(tokens, target.next) = "BE"
              \/ (TypeAt(tokens, target.next) = "IDENT" /\ tokens[target.next].lx = "BE"))
         THEN Err("EPHEMERAL: expected BE after SIGIL " \o target.name)
    ELSE execEphemeralSigilOf(sigils, target.name, afterStmt(tokens, target.next + 1),
                              evalStringExpr(exprAt(tokens, target.next + 1), sigils, sres))

execEphemeralSigil(tokens, i, sigils, sres) ==
    execEphemeralSigilTo(tokens, sigils, sres,
        parseSigilTarget(tokens, IF TypeAt(tokens, i + 1) = "LET" THEN i + 2 ELSE i + 1))

\* execEntangle past the optional CORE, at the name
execEntangleAt(tokens, i1, cores) ==
    IF TypeAt(tokens, i1) # "IDENT" THEN Err("ENTANGLE: expected core name")
    ELSE IF tokens[i1].lx \in cores
         THEN Err("ENTANGLE: core " \o tokens[i1].lx \o " entangled twice in same CHAMBER")
    ELSE [st |-> "ok", cores |-> cores \cup {tokens[i1].lx},
          next |-> skipDot(tokens,
                     IF TypeAt(tokens, i1 + 1) = "WITH"
                     THEN (IF TypeAt(tokens, i1 + 2) \in {"STRING", "IDENT"} THEN i1 + 3 ELSE i1 + 2)
                     ELSE i1 + 1)]

execEntangle(tokens, i, cores) ==
    execEntangleAt(tokens, IF TypeAt(tokens, i + 1) = "CORE" THEN i + 2 ELSE i + 1, cores)

execRelease_lenient(tokens, i, cores) ==
    IF TypeAt(tokens, i + 1) # "IDENT" THEN Err("RELEASE: expected core name")
    ELSE [st |-> "ok", cores |-> cores \ {tokens[i + 1].lx}, next |-> skipDot(tokens, i + 2)]

execRelease(tokens, i, cores) ==
    IF TypeAt(tokens, i + 1) # "IDENT" THEN Err("RELEASE: expected core name")
    ELSE IF tokens[i + 1].lx \notin cores
         THEN Err("RELEASE: core " \o tokens[i + 1].lx \o " not entangled in this CHAMBER")
    ELSE [st |-> "ok", cores |-> cores \ {tokens[i + 1].lx}, next |-> skipDot(tokens, i + 2)]

execThusOf(expr, next, r) ==
    IF r.st # "ok" THEN r ELSE [st |-> "ok", val |-> r.s, expr |-> expr, next |-> next]

\* execThus past WE ANSWER and the optional WITH, at i3
execThusAt(tokens, i3, sigils, sres) ==
    execThusOf(exprAt(tokens, i3), afterStmt(tokens, i3), evalStringExpr(exprAt(tokens, i3), sigils, sres))

execThus(tokens, i, sigils, sres) ==
    IF TypeAt(tokens, i + 1) # "WE" THEN Err("THUS: expected WE after THUS")
    ELSE IF TypeAt(tokens, i + 2) # "ANSWER" THEN Err("THUS: expected ANSWER after WE")
    ELSE execThusAt(tokens,
            IF TypeAt(tokens, i + 3) = "WITH"
               \/ (TypeAt(tokens, i + 3) = "IDENT" /\ tokens[i + 3].lx = "WITH")
            THEN i + 4 ELSE i + 3,
            sigils, sres)

execSendBackOf(expr, next, r) ==
    IF r.st # "ok" THEN r
    ELSE [st |-> "ok", val |-> redactIfTainted(r.s, r.tainted), tainted |-> r.tainted,
          expr |-> expr, next |-> next]

\* execSendBack past BACK and the optional colon, at i2
execSendBackAt(tokens, i2, sigils, sres) ==
    IF TypeAt(tokens, i2) = "SIGIL" THEN
       IF TypeAt(tokens, i2 + 1) # "IDENT" THEN Err("SEND BACK: expected SIGIL name after SIGIL")
       ELSE [st |-> "ok", next |-> afterStmt(tokens, i2 + 2), expr |-> <<tokens[i2 + 1]>>,
             tainted |-> isInvisibleSigil(sigils, tokens[i2 + 1].lx),
             val |-> IF isInvisibleSigil(sigils, tokens[i2 + 1].lx) THEN sicRedacted
                     ELSE getSigil(sigils, tokens[i2 + 1].lx).v]
    ELSE execSendBackOf(exprAt(tokens, i2), afterStmt(tokens, i2),
                        evalStringExprTainted(exprAt(tokens, i2), sigils, sres))

\* execSendBack past SEND and NEWLINEs, at i1
execSendBackFrom(tokens, i1, sigils, sres) ==
    IF i1 > Len(tokens) \/ ~EqualFold(tokens[i1].lx, "BACK")
    THEN Err("SEND BACK: expected BACK after SEND")
    ELSE execSendBackAt(tokens, IF TypeAt(tokens, i1 + 1) = "COLON" THEN i1 + 2 ELSE i1 + 1,
                        sigils, sres)

execSendBack(tokens, i, sigils, sres) ==
    execSendBackFrom(tokens, skipNewlines(tokens, i + 1), sigils, sres)

execRaiseOmen(tokens, i, sigils) ==
    IF TypeAt(tokens, i + 1) # "OMEN" THEN Err("RAISE: expected OMEN after RAISE")
    ELSE IF TypeAt(tokens, i + 2) # "STRING" THEN Err("RAISE: expected OMEN name string after OMEN")
    ELSE [st |-> "ok", name |-> tokens[i + 2].lx,
          sigils |-> raiseOmen(sigils, tokens[i + 2].lx),
          next |-> afterStmt(tokens, i + 3)]

(***************************************************************************)
(* The block statements up to the execution of their body: the header and  *)
(* the scan for the end of the block.  A position of 0 is Go's -1.         *)
(***************************************************************************)
RECURSIVE condEnd(_, _)
condEnd(tokens, i) ==
    IF i <= Len(tokens) /\ tokens[i].t # "COLON"
       /\ ~(tokens[i].t = "IDENT" /\ EqualFold(tokens[i].lx, "THEN"))
    THEN condEnd(tokens, i + 1) ELSE i

RECURSIVE ifScan(_, _, _, _)
ifScan(tokens, j, depth, elseStart) ==
    IF j > Len(tokens) THEN [elseStart |-> elseStart, endPos |-> 0]
    ELSE LET t == tokens[j] IN
         IF t.t = "IF" THEN ifScan(tokens, j + 1, depth + 1, elseStart)
         ELSE IF t.t = "ELSE" /\ depth = 1 THEN ifScan(tokens, j + 1, depth, j)
         ELSE IF t.t = "END" \/ (t.t = "IDENT" /\ EqualFold(t.lx, "ENDIF")) THEN
              IF depth = 1 THEN [elseStart |-> elseStart, endPos |-> j]
              ELSE ifScan(tokens, j + 1, depth - 1, elseStart)
         ELSE ifScan(tokens, j + 1, depth, elseStart)

\* `for k < endPos && tokens[k].Type == TOK_NEWLINE { k++ }`
RECURSIVE skipNewlinesBefore(_, _, _)
skipNewlinesBefore(tokens, k, endPos) ==
    IF k < endPos /\ tokens[k].t = "NEWLINE" THEN skipNewlinesBefore(tokens, k + 1, endPos) ELSE k

\* execIf once the condition is evaluated: the branch to run, if any
execIfOf(tokens, thenStart, sc, k0, cond) ==
    IF cond.st # "ok" THEN cond
    ELSE [st |-> "ok", cond |-> cond.b,
          run |-> cond.b \/ sc.elseStart # 0,
          lo |-> IF cond.b THEN thenStart
                 ELSE skipNewlinesBefore(tokens,
                        IF k0 < sc.endPos /\ tokens[k0].t = "COLON" THEN k0 + 1 ELSE k0, sc.endPos),
          hi |-> IF cond.b /\ sc.elseStart # 0 THEN sc.elseStart - 1 ELSE sc.endPos - 1,
          next |-> skipDot(tokens, sc.endPos + 1)]

\* execIf after the scan for ELSE and END
execIfScanned(tokens, condTokens, thenStart, sc, sigils, sres) ==
    IF sc.endPos = 0 THEN Err("IF: unmatched ENDIF for IF")
    ELSE execIfOf(tokens, thenStart, sc, sc.elseStart + 1, evalBoolExpr(condTokens, sigils, sres))

\* execIf past the condition, at the optional THEN (ic)
execIfAt(tokens, condTokens, i2, sigils, sres) ==
    IF condTokens = <<>> THEN Err("IF: expected condition after IF")
    ELSE IF TypeAt(tokens, i2) # "COLON" THEN Err("IF: expected COLON after condition")
    ELSE execIfScanned(tokens, condTokens, skipNewlines(tokens, i2 + 1),
                       ifScan(tokens, skipNewlines(tokens, i2 + 1), 1, 0), sigils, sres)

execIfFrom(tokens, condStart, ic, sigils, sres) ==
    execIfAt(tokens, SubSeq(tokens, condStart, ic - 1),
             IF TypeAt(tokens, ic) = "IDENT" /\ EqualFold(tokens[ic].lx, "THEN") THEN ic + 1 ELSE ic,
             sigils, sres)

execIf(tokens, i, sigils, sres) ==
    execIfFrom(tokens, skipNewlines(tokens, i + 1), condEnd(tokens, skipNewlines(tokens, i + 1)),
               sigils, sres)

\* `const maxWhileIterations = 100000`: the cap of execWhile, scaled down to a
\* number of iterations that can be enumerated
maxWhileIterations == 3

\* execWhile 2072-2074: the condition runs up to the COLON
RECURSIVE whileCondEnd(_, _)
whileCondEnd(tokens, i) ==
    IF i <= Len(tokens) /\ tokens[i].t # "COLON" THEN whileCondEnd(tokens, i + 1) ELSE i

\* execWhile 2091-2107: the matching ENDWHILE, 0 when there is none
RECURSIVE whileScan(_, _, _)
whileScan(tokens, j, depth) ==
    IF j > Len(tokens) THEN 0
    ELSE IF tokens[j].t = "WHILE" THEN whileScan(tokens, j + 1, depth + 1)
    ELSE IF tokens[j].t = "ENDWHILE"
            \/ (tokens[j].t = "IDENT" /\ EqualFold(tokens[j].lx, "ENDWHILE"))
         THEN IF depth = 1 THEN j ELSE whileScan(tokens, j + 1, depth - 1)
    ELSE whileScan(tokens, j + 1, depth)

whileCapped_never(iterations) == FALSE

\* `if iterations >= maxWhileIterations`
whileCapped(iterations) == iterations >= maxWhileIterations

\* one turn of the loop of execWhile (2118-2135), the condition evaluated
execWhileOf(tokens, bodyStart, endPos, cond) ==
    IF cond.st # "ok" THEN cond
    ELSE [st |-> "ok", run |-> cond.b, lo |-> bodyStart, hi |-> endPos - 1,
          next |-> skipDot(tokens, endPos + 1)]

\* one turn of the loop of execWhile, iterations turns having been taken
execWhileScanned(tokens, condTokens, bodyStart, endPos, iterations, sigils, sres) ==
    IF endPos = 0 THEN Err("WHILE: unmatched ENDWHILE for WHILE")
    ELSE IF whileCapped(iterations)
         THEN Err("WHILE: exceeded " \o NatStr(maxWhileIterations) \o " iterations")
    ELSE execWhileOf(tokens, bodyStart, endPos, evalBoolExpr(condTokens, sigils, sres))

execWhileAt(tokens, condStart, ic, iterations, sigils, sres) ==
    IF TypeAt(tokens, ic) # "COLON" THEN Err("WHILE: expected COLON after condition")
    ELSE execWhileScanned(tokens, SubSeq(tokens, condStart, ic - 1), skipNewlines(tokens, ic + 1),
                          whileScan(tokens, skipNewlines(tokens, ic + 1), 1), iterations, sigils, sres)

execWhile(tokens, i, iterations, sigils, sres) ==
    execWhileAt(tokens, skipNewlines(tokens, i + 1),
                whileCondEnd(tokens, skipNewlines(tokens, i + 1)), iterations, sigils, sres)

\* the omens the programs of the model name
OmenNames == {"x", "m", "y"}

\* omenPresent 204-207
omenPresent(sigils, name) ==
    getSigil(sigils, omenPrefix \o name).ok
        /\ getSigil(sigils, omenPrefix \o name).v \notin {"", "0"}

clearAllOmens_none(sigils) == sigils

\* clearAllOmens 209-215: the keys that start with omenPrefix are deleted
clearAllOmens(sigils) ==
    [k \in DOMAIN sigils \ {omenPrefix \o n : n \in OmenNames} |-> sigils[k]]

\* execIfOmen 1954-1968: ELSE and END of the IF, elseStart and endPos 0 when absent
RECURSIVE ifOmenScan(_, _, _, _)
ifOmenScan(tokens, j, depth, elseStart) ==
    IF j > Len(tokens) THEN [elseStart |-> elseStart, endPos |-> 0]
    ELSE IF tokens[j].t = "IF" THEN ifOmenScan(tokens, j + 1, depth + 1, elseStart)
    ELSE IF tokens[j].t = "ELSE" /\ depth = 1 THEN ifOmenScan(tokens, j + 1, depth, j)
    ELSE IF tokens[j].t = "END" /\ depth = 1 THEN [elseStart |-> elseStart, endPos |-> j]
    ELSE IF tokens[j].t = "END" THEN ifOmenScan(tokens, j + 1, depth - 1, elseStart)
    ELSE ifOmenScan(tokens, j + 1, depth, elseStart)

execIfOmen_always(tokens, thenStart, sc, k0, name, cond) ==
    [st |-> "ok", name |-> name, cond |-> TRUE, run |-> TRUE, lo |-> thenStart,
     hi |-> IF sc.elseStart # 0 THEN sc.elseStart - 1 ELSE sc.endPos - 1,
     next |-> sc.endPos + 1]

\* execIfOmen 1970-2000: the branch to run, if any, cond being omenPresent
execIfOmenOf(tokens, thenStart, sc, k0, name, cond) ==
    IF sc.endPos = 0 THEN Err("IF OMEN: unmatched END for IF")
    ELSE [st |-> "ok", name |-> name, cond |-> cond,
          run |-> cond \/ sc.elseStart # 0,
          lo |-> IF cond THEN thenStart
                 ELSE skipNewlinesBefore(tokens,
                        IF k0 < sc.endPos /\ tokens[k0].t = "COLON" THEN k0 + 1 ELSE k0, sc.endPos),
          hi |-> IF cond /\ sc.elseStart # 0 THEN sc.elseStart - 1 ELSE sc.endPos - 1,
          next |-> sc.endPos + 1]

execIfOmenScanned(tokens, thenStart, sc, name, sigils) ==
    execIfOmenOf(tokens, thenStart, sc, sc.elseStart + 1, name, omenPresent(sigils, name))

\* execIfOmen 1939-1952: the COLON at ic, then the NEWLINEs
execIfOmenAt(tokens, ic, name, sigils) ==
    IF TypeAt(tokens, ic) # "COLON" THEN Err("IF OMEN: expected COLON after condition")
    ELSE execIfOmenScanned(tokens, skipNewlines(tokens, ic + 1),
                           ifOmenScan(tokens, skipNewlines(tokens, ic + 1), 1, 0), name, sigils)

\* execIfOmen 1925-1937: the optional IS PRESENT at i3 and the optional THEN
afterIsPresent(tokens, i3) ==
    IF i3 + 1 <= Len(tokens)
       /\ tokens[i3].t = "IDENT" /\ tokens[i3].lx = "IS"
       /\ tokens[i3 + 1].t = "IDENT" /\ tokens[i3 + 1].lx = "PRESENT"
    THEN i3 + 2 ELSE i3

afterThen(tokens, i4) ==
    IF TypeAt(tokens, i4) = "IDENT" /\ tokens[i4].lx = "THEN" THEN i4 + 1 ELSE i4

\* execIfOmen 1905-1923
execIfOmen(tokens, i, sigils) ==
    IF TypeAt(tokens, i + 1) # "OMEN" THEN Err("IF OMEN: expected OMEN after IF")
    ELSE IF TypeAt(tokens, i + 2) \notin {"STRING", "IDENT"} THEN Err("IF OMEN: expected OMEN name")
    ELSE execIfOmenAt(tokens, afterThen(tokens, afterIsPresent(tokens, i + 3)),
                      tokens[i + 2].lx, sigils)

\* execFallsToRuin 2333-2341, the message evaluated
execFallsToRuinOf(sigils, next, r) ==
    IF r.st # "ok" THEN r
    ELSE [st |-> "ok", line |-> "[SIC RUIN] " \o r.s, sigils |-> clearAllOmens(sigils),
          next |-> next]

\* execFallsToRuin 2313-2331
execFallsToRuin(tokens, i, sigils, sres) ==
    IF TypeAt(tokens, i + 1) # "COLON"
    THEN Err("FALLS_TO_RUIN: expected COLON after FALLS_TO_RUIN")
    ELSE execFallsToRuinOf(sigils, afterStmt(tokens, i + 2),
                           evalStringExpr(exprAt(tokens, i + 2), sigils, sres))

OmenBoundary_any ==
    {"NEWLINE", "COLON", "END", "ENDWEAVE", "ENDWORK", "ENDOMEN", "ENDCHAMBER", "ENDALTAR",
     "RAISE", "IF"}

\* execOmenBlock 2391-2399: the types after which OMEN opens a region
OmenBoundary == {"NEWLINE", "COLON", "END", "ENDWEAVE", "ENDWORK", "ENDOMEN", "ENDCHAMBER", "ENDALTAR"}

RECURSIVE omenScan(_, _, _, _, _)
omenScan(tokens, j, depth, prevType, ruinStart) ==
    IF j > Len(tokens) THEN [endPos |-> 0, ruinStart |-> ruinStart]
    ELSE LET t == tokens[j] IN
         IF t.t = "OMEN" /\ prevType \in OmenBoundary
         THEN omenScan(tokens, j + 1, depth + 1, t.t, ruinStart)
         ELSE IF t.t = "ENDOMEN" THEN
              IF depth - 1 = 0 THEN [endPos |-> j, ruinStart |-> ruinStart]
              ELSE omenScan(tokens, j + 1, depth - 1, t.t, ruinStart)
         ELSE omenScan(tokens, j + 1, depth, t.t,
                       IF depth = 1 /\ t.t = "IDENT" /\ t.lx = "FALLS_TO_RUIN" THEN j ELSE ruinStart)

\* execOmenBlock up to the snapshot: name, body, recovery body, end
execOmenBlock(tokens, i) ==
    IF TypeAt(tokens, i + 1) # "STRING" THEN Err("OMEN: expected OMEN name string after OMEN")
    ELSE
      LET bodyStart == IF TypeAt(tokens, i + 2) = "COLON" THEN i + 3 ELSE i + 2
          sc == omenScan(tokens, bodyStart, 1, "NEWLINE", 0)
          tryEnd == IF sc.ruinStart # 0 THEN sc.ruinStart ELSE sc.endPos
          k0 == sc.ruinStart + 1
          k1 == IF k0 < sc.endPos /\ tokens[k0].t = "COLON" THEN k0 + 1 ELSE k0
      IN  IF sc.endPos = 0 THEN Err("OMEN: unmatched ENDOMEN for OMEN")
          ELSE [st |-> "ok", omenName |-> tokens[i + 1].lx,
                lo |-> bodyStart, hi |-> tryEnd - 1, ruinStart |-> sc.ruinStart,
                ruinLo |-> skipNewlinesBefore(tokens, k1, sc.endPos), ruinHi |-> sc.endPos - 1,
                next |-> sc.endPos + 1]

RECURSIVE chamberScan(_, _, _)
chamberScan(tokens, j, depth) ==
    IF j > Len(tokens) THEN 0
    ELSE IF tokens[j].t = "CHAMBER" THEN chamberScan(tokens, j + 1, depth + 1)
    ELSE IF tokens[j].t = "ENDCHAMBER" THEN
         (IF depth - 1 = 0 THEN j ELSE chamberScan(tokens, j + 1, depth - 1))
    ELSE chamberScan(tokens, j + 1, depth)

\* execChamberBlock up to the clone of the sigils
execChamberBlock(tokens, i) ==
    LET i1 == IF TypeAt(tokens, i + 1) = "IDENT" THEN i + 2 ELSE i + 1
        endPos == chamberScan(tokens, i1 + 1, 1)
    IN  IF TypeAt(tokens, i1) # "COLON" THEN Err("CHAMBER: expected COLON after header")
        ELSE IF endPos = 0 THEN Err("CHAMBER: unmatched ENDCHAMBER for CHAMBER")
        ELSE [st |-> "ok", lo |-> i1 + 1, hi |-> endPos - 1, next |-> skipDot(tokens, endPos + 1)]

RECURSIVE ephemeralScan(_, _, _)
ephemeralScan(tokens, j, depth) ==
    IF j > Len(tokens) THEN 0
    ELSE IF tokens[j].t = "EPHEMERAL" THEN ephemeralScan(tokens, j + 1, depth + 1)
    ELSE IF tokens[j].t = "END" /\ TypeAt(tokens, j + 1) = "EPHEMERAL" THEN
         (IF depth - 1 = 0 THEN j ELSE ephemeralScan(tokens, j + 1, depth - 1))
    ELSE ephemeralScan(tokens, j + 1, depth)

\* execEphemeralBlock up to the execution of the body
execEphemeralBlock(tokens, i) ==
    LET bodyStart == IF TypeAt(tokens, i + 1) = "COLON" THEN i + 2 ELSE i + 1
        endPos == ephemeralScan(tokens, bodyStart, 1)
    IN  IF endPos = 0 THEN Err("EPHEMERAL: unmatched END EPHEMERAL for block")
        ELSE [st |-> "ok", lo |-> bodyStart, hi |-> endPos - 1, next |-> skipDot(tokens, endPos + 2)]

RECURSIVE summonStmtEnd(_, _)
summonStmtEnd(tokens, i) ==
    IF i <= Len(tokens) /\ tokens[i].t \notin {"DOT", "NEWLINE", "ENDWEAVE", "ENDWORK"}
    THEN summonStmtEnd(tokens, i + 1) ELSE i

\* execSummonStmt around the call of the target
execSummonStmt(tokens, i, sigils) ==
    LET h == summonHeader(tokens, i, sigils)
    IN  IF h.st # "ok" THEN h
        ELSE [st |-> "ok", h |-> h, next |-> skipDot(tokens, summonStmtEnd(tokens, i + h.consumed))]

\* execWeaveBlock 2784-2792: WEAVE and its COLON
execWeaveBlock(tokens, i) ==
    IF TypeAt(tokens, i + 1) # "COLON" THEN Err("WEAVE: expected COLON after WEAVE")
    ELSE [st |-> "ok", next |-> i + 2]

\* execWeaveBlock 2794-2825: the loop of the block at the token i, NEWLINEs skipped
weaveLoop(tokens, i, sigils) ==
    CASE i > Len(tokens) -> Err("WEAVE: missing ENDWEAVE for block")
      [] tokens[i].t = "ENDWEAVE" -> [st |-> "end", next |-> skipDot(tokens, i + 1)]
      [] tokens[i].t = "SUMMON" -> execSummonStmt(tokens, i, sigils)
      [] OTHER -> Err("WEAVE: unexpected token " \o tokens[i].t)

\* the targets of the SUMMONs of a WEAVE block, in the order of the source
RECURSIVE weaveTargets(_, _)
weaveTargets(tokens, i) ==
    IF i > Len(tokens) \/ tokens[i].t = "ENDWEAVE" THEN <<>>
    ELSE IF tokens[i].t = "SUMMON" /\ TypeAt(tokens, i + 2) = "IDENT"
         THEN <<tokens[i + 2].lx>> \o weaveTargets(tokens, i + 3)
    ELSE weaveTargets(tokens, i + 1)

\* execChoirBlock 2855-2863: the first ENDCHOIR from j on, 0 when there is none
RECURSIVE choirEnd(_, _)
choirEnd(tokens, j) ==
    IF j > Len(tokens) THEN 0
    ELSE IF tokens[j].t = "ENDCHOIR" \/ (tokens[j].t = "IDENT" /\ tokens[j].lx = "ENDCHOIR") THEN j
    ELSE choirEnd(tokens, j + 1)

\* execChoirBlock 2887-2897: the end of the statement that starts at j, its DOT passed
RECURSIVE choirStmtEnd(_, _, _)
choirStmtEnd(tokens, j, endPos) ==
    IF j < endPos /\ tokens[j].t \notin {"DOT", "NEWLINE", "ENDWORK", "ENDCHOIR"}
    THEN choirStmtEnd(tokens, j + 1, endPos)
    ELSE IF j < endPos /\ tokens[j].t = "DOT" THEN j + 1
    ELSE j

choirCons(lo, hi, rest) ==
    IF rest.st = "err" THEN rest
    ELSE [st |-> "ok", starts |-> <<[lo |-> lo, hi |-> hi]>> \o rest.starts]

\* execChoirBlock 2869-2902: the SUMMON statements of the body, in the order of the
\* source; each is kept with its end, the goroutine executing that statement only
RECURSIVE choirStarts(_, _, _)
choirStarts(tokens, j, endPos) ==
    IF j >= endPos THEN [st |-> "ok", starts |-> <<>>]
    ELSE IF tokens[j].t = "NEWLINE" THEN choirStarts(tokens, j + 1, endPos)
    ELSE IF tokens[j].t # "SUMMON"
         THEN Err("CHOIR: only SUMMON statements are allowed inside CHOIR, got " \o tokens[j].t)
    ELSE choirCons(j, choirStmtEnd(tokens, j, endPos) - 1,
                   choirStarts(tokens, choirStmtEnd(tokens, j, endPos), endPos))

choirParsed(tokens, endPos, r) ==
    IF r.st = "err" THEN r
    ELSE [st |-> "ok", starts |-> r.starts, next |-> skipDot(tokens, endPos + 1)]

choirFrom(tokens, i1, endPos) ==
    IF endPos = 0 THEN Err("CHOIR: missing ENDCHOIR for block")
    ELSE choirParsed(tokens, endPos, choirStarts(tokens, i1, endPos))

\* execChoirBlock 2841-2911, up to the start of the goroutines
execChoirBlock(tokens, i) ==
    choirFrom(tokens, skipNewlines(tokens, IF TypeAt(tokens, i + 1) = "COLON" THEN i + 2 ELSE i + 1),
              choirEnd(tokens, skipNewlines(tokens, IF TypeAt(tokens, i + 1) = "COLON" THEN i + 2 ELSE i + 1)))

choirChild_empty(sigils) == EmptyTable

\* execChoirBlock 2922-2926: the table of a goroutine, every entry of the waiting
\* frame's table copied
choirChild(sigils) == [k \in DOMAIN sigils |-> sigils[k]]

(***************************************************************************)
(* ALTAR (execAltarBlock 3087-3405).  globalAltar is the server of the     *)
(* process: its address, whether its listener was started, the route keys  *)
(* registered and the patterns of its mux with their handlers.  A handler  *)
(* keeps the table of the declaring frame itself (`parent := sigils`, a Go *)
(* map, is a reference): parent is the index of that table.                *)
(***************************************************************************)
NilAltar == [nil |-> TRUE, addr |-> "", started |-> FALSE, registered |-> {}, mux |-> <<>>,
             listeners |-> <<>>]

\* execAltarBlock 3091-3132: AT and the address, then the optional COLON
altarAddrAt(tokens, j) ==
    CASE j > Len(tokens) -> Err("ALTAR: expected port or address after AT")
      [] tokens[j].t = "STRING" -> [st |-> "ok", addr |-> tokens[j].lx, next |-> j + 1]
      [] tokens[j].t = "COLON" ->
            IF TypeAt(tokens, j + 1) # "NUM" THEN Err("ALTAR: expected numeric port after ':'")
            ELSE [st |-> "ok", addr |-> ":" \o tokens[j + 1].lx, next |-> j + 2]
      [] tokens[j].t = "NUM" -> [st |-> "ok", addr |-> ":" \o tokens[j].lx, next |-> j + 1]
      [] OTHER -> Err("ALTAR: invalid address token " \o tokens[j].t)

altarColon(tokens, r) ==
    IF r.st # "ok" THEN r
    ELSE [r EXCEPT !.next = IF TypeAt(tokens, r.next) = "COLON" THEN r.next + 1 ELSE r.next]

altarAddr(tokens, i) ==
    IF TypeAt(tokens, i + 1) # "AT" THEN Err("ALTAR: expected AT after ALTAR")
    ELSE altarColon(tokens, altarAddrAt(tokens, i + 2))

altarBind_rebind(srv, addr) ==
    [st |-> "ok", launch |-> srv.nil,
     srv |-> IF srv.nil \/ srv.addr # addr
             THEN [nil |-> FALSE, addr |-> addr, started |-> TRUE, registered |-> {},
                   mux |-> <<>>, listeners |-> Append(srv.listeners, addr)]
             ELSE srv]

\* execAltarBlock 3139-3162, under altarMu: the server is made and its listener
\* started, or the server there is is taken, or the address is refused
altarBind(srv, addr) ==
    IF srv.nil
    THEN [st |-> "ok", launch |-> TRUE,
          srv |-> [nil |-> FALSE, addr |-> addr, started |-> TRUE, registered |-> {},
                   mux |-> <<>>, listeners |-> <<addr>>]]
    ELSE IF srv.addr # addr
    THEN Err("ALTAR: server already bound to " \o srv.addr \o ", cannot bind to " \o addr)
    ELSE [st |-> "ok", launch |-> ~srv.started,
          srv |-> IF srv.started THEN srv
                  ELSE [srv EXCEPT !.started = TRUE, !.listeners = Append(@, srv.addr)]]

Methods == {"GET", "POST", "PUT", "DELETE"}

\* the end of the expression of ROUTE ... TO SEND BACK
RECURSIVE routeExprEnd(_, _)
routeExprEnd(tokens, i) ==
    IF i <= Len(tokens) /\ tokens[i].t \notin {"DOT", "NEWLINE", "ENDALTAR"}
    THEN routeExprEnd(tokens, i + 1) ELSE i

\* execAltarBlock 3308-3341: TO SEND [BACK [:]] expr [.], from the token after SEND
routeSendAt(tokens, method, path, exprStart) ==
    [st |-> "ok", method |-> method, path |-> path, kind |-> "send", h |-> "",
     expr |-> SubSeq(tokens, exprStart, routeExprEnd(tokens, exprStart) - 1),
     next |-> skipDot(tokens, routeExprEnd(tokens, exprStart))]

routeSend(tokens, method, path, i) ==
    routeSendAt(tokens, method, path,
                IF i <= Len(tokens) /\ EqualFold(tokens[i].lx, "BACK")
                THEN (IF TypeAt(tokens, i + 1) = "COLON" THEN i + 2 ELSE i + 1)
                ELSE i)

\* execAltarBlock 3225-3238: TO WORK name [.], from the token after WORK
routeWork(tokens, method, path, i) ==
    IF TypeAt(tokens, i) # "IDENT" THEN Err("ALTAR: expected WORK name after WORK")
    ELSE [st |-> "ok", method |-> method, path |-> path, kind |-> "work", h |-> tokens[i].lx,
          expr |-> <<>>, next |-> skipDot(tokens, i + 1)]

\* execAltarBlock 3210-3222 and 3402-3404: TO, then WORK or SEND
routeTo(tokens, method, path, i) ==
    IF ~(TypeAt(tokens, i) = "IDENT" /\ EqualFold(tokens[i].lx, "TO"))
    THEN Err("ALTAR: expected TO after ROUTE " \o method \o " " \o path)
    ELSE IF i + 1 > Len(tokens) THEN Err("ALTAR: expected WORK or SEND after TO")
    ELSE IF tokens[i + 1].t = "WORK" THEN routeWork(tokens, method, path, i + 2)
    ELSE IF tokens[i + 1].t = "SEND"
         THEN routeSend(tokens, method, path, skipNewlines(tokens, i + 2))
    ELSE Err("ALTAR: expected WORK or SEND after TO")

\* execAltarBlock 3188-3208: ROUTE, the method and the path
altarRoute(tokens, i) ==
    IF TypeAt(tokens, i + 1) \notin Methods THEN Err("ALTAR: expected HTTP method after ROUTE")
    ELSE IF i + 2 > Len(tokens) THEN Err("ALTAR: missing path after method " \o tokens[i + 1].lx)
    ELSE routeTo(tokens, tokens[i + 1].lx, tokens[i + 2].lx, i + 3)

altarEnd_stay(tokens, i) == [st |-> "end", next |-> i]

\* execAltarBlock 3175-3182: ENDALTAR and its DOT; `ALTAR does not own process
\* lifetime`, the handler returns the index of the next statement
altarEnd(tokens, i) == [st |-> "end", next |-> skipDot(tokens, i + 1)]

\* execAltarBlock 3165-3187 and 3405: a turn of the loop over the ROUTE statements
altarLoop(tokens, i) ==
    CASE i > Len(tokens) -> Err("ALTAR: missing ENDALTAR for block")
      [] tokens[i].t = "ENDALTAR" -> altarEnd(tokens, i)
      [] tokens[i].t = "ROUTE" -> altarRoute(tokens, i)
      [] OTHER -> Err("ALTAR: expected ROUTE or ENDALTAR, got " \o tokens[i].t)

routeKey(method, path) == method \o " " \o path
Patterns(srv) == {srv.mux[k].pattern : k \in 1..Len(srv.mux)}

altarRegister_unmarked(srv, r, parent) ==
    IF r.path \in Patterns(srv)
    THEN [st |-> "panic", msg |-> "panic: http: multiple registrations for " \o r.path, srv |-> srv]
    ELSE [st |-> "ok",
          srv |-> [srv EXCEPT !.mux = Append(@, [pattern |-> r.path, m |-> r.method,
                                                 kind |-> r.kind, h |-> r.h, expr |-> r.expr,
                                                 parent |-> parent])]]

altarRegister_replace(srv, r, parent) ==
    [st |-> "ok",
     srv |-> [srv EXCEPT !.registered = @ \cup {routeKey(r.method, r.path)},
                         !.mux = Append(SelectSeq(@, LAMBDA e : e.pattern # r.path),
                                        [pattern |-> r.path, m |-> r.method, kind |-> r.kind,
                                         h |-> r.h, expr |-> r.expr, parent |-> parent])]]

\* execAltarBlock 3242-3257 and 3346-3361, under altarMu: the route key is refused
\* when registered, else marked and the handler given to the mux, which panics on a
\* pattern it has (net/http ServeMux.Handle)
altarRegister(srv, r, parent) ==
    IF routeKey(r.method, r.path) \in srv.registered
    THEN Err("ALTAR: duplicate route " \o routeKey(r.method, r.path))
    ELSE IF r.path \in Patterns(srv)
    THEN [st |-> "panic", msg |-> "panic: http: multiple registrations for " \o r.path,
          srv |-> [srv EXCEPT !.registered = @ \cup {routeKey(r.method, r.path)}]]
    ELSE [st |-> "ok",
          srv |-> [srv EXCEPT !.registered = @ \cup {routeKey(r.method, r.path)},
                              !.mux = Append(@, [pattern |-> r.path, m |-> r.method,
                                                 kind |-> r.kind, h |-> r.h, expr |-> r.expr,
                                                 parent |-> parent])]]

summonChild_unmarked(sigils, h) ==
    IF Len(works[h.target].SigilParams) > 0
    THEN setSigil(cloneVisibleSigils(EmptyTable, sigils), works[h.target].SigilParams[1], h.argVal)
    ELSE cloneVisibleSigils(EmptyTable, sigils)

\* evalSummonExpr 3498-3516: the environment the callee runs in
summonChild(sigils, h) ==
    LET base == cloneVisibleSigils(EmptyTable, sigils)
        target == works[h.target]
    IN  IF Len(target.SigilParams) > 0
        THEN LET param == target.SigilParams[1]
                 bound == setSigil(base, param, h.argVal)
             IN  IF h.argFromSigil # "" /\ h.argWasInvisible THEN markInvisibleSigil(bound, param)
                 ELSE bound
        ELSE base

summonEnv_shared(callerEnv, fresh) == callerEnv

\* `childSigils := make(sigilTable)`: the callee's table is a new one
summonEnv(callerEnv, fresh) == fresh

scrubEphemeral_none(sigils, names) == sigils

\* the deferred function of execWork
scrubEphemeral(sigils, names) ==
    [k \in {x \in DOMAIN sigils : \A n \in names : x # n /\ x # sicInvisibleMetaPrefix \o n} |-> sigils[k]]

(***************************************************************************)
(* Programs.  MAIN is a sequence of MaxStmts passages drawn from Pool; the *)
(* other Works are fixed.  Every statement ends with DOT NEWLINE, as the   *)
(* lexer delivers source lines.                                            *)
(***************************************************************************)
S(toks) == toks \o <<Tok("DOT"), Tok("NEWLINE")>>
Head2(toks) == toks \o <<Tok("COLON"), Tok("NEWLINE")>>

PSetup == S(<<Tok("LET"), Id("INVISIBLE"), Id("s"), Tok("BE"), Str("sec")>>)
          \o S(<<Tok("LET"), Id("a"), Tok("BE"), Str("1")>>)
PEphemeral == S(<<Tok("LET"), Tok("EPHEMERAL"), Id("INVISIBLE"), Id("e"), Tok("BE"), Str("tmp")>>)
              \o S(<<Tok("EPHEMERAL"), Tok("SIGIL"), Id("q"), Tok("BE"), Id("a")>>)
PSay == S(<<Tok("SAY"), Tok("COLON"), Id("s"), Tok("PLUS"), Str("!")>>)
PThus == S(<<Tok("THUS"), Tok("WE"), Tok("ANSWER"), Id("s")>>)
PSendBack == S(<<Id("SEND"), Id("BACK"), Id("s"), Tok("PLUS"), Id("a")>>)
PRaise == S(<<Tok("RAISE"), Tok("OMEN"), Str("x")>>)
          \o S(<<Tok("SAY"), Tok("COLON"), Str("after")>>)
POmenRaise == Head2(<<Tok("OMEN"), Str("x")>>)
              \o S(<<Tok("LET"), Id("a"), Tok("BE"), Str("2")>>)
              \o S(<<Tok("RAISE"), Tok("OMEN"), Str("x")>>)
              \o S(<<Tok("LET"), Id("b"), Tok("BE"), Str("3")>>)
              \o Head2(<<Id("FALLS_TO_RUIN")>>)
              \o S(<<Tok("LET"), Id("r"), Tok("BE"), Str("1")>>)
              \o S(<<Tok("ENDOMEN")>>)
POmenCalm == Head2(<<Tok("OMEN"), Str("m")>>)
             \o S(<<Tok("LET"), Id("a"), Tok("BE"), Str("2")>>)
             \o S(<<Tok("LET"), Tok("EPHEMERAL"), Id("e"), Tok("BE"), Str("t")>>)
             \o Head2(<<Id("FALLS_TO_RUIN")>>)
             \o S(<<Tok("LET"), Id("r"), Tok("BE"), Str("1")>>)
             \o S(<<Tok("ENDOMEN")>>)
POmenOther == Head2(<<Tok("OMEN"), Str("m")>>)
              \o S(<<Tok("RAISE"), Tok("OMEN"), Str("x")>>)
              \o Head2(<<Id("FALLS_TO_RUIN")>>)
              \o S(<<Tok("LET"), Id("r"), Tok("BE"), Str("1")>>)
              \o S(<<Tok("ENDOMEN")>>)
PLetSummon == S(<<Tok("LET"), Id("b"), Tok("BE"), Tok("SUMMON"), Tok("WORK"), Id("F"),
                  Tok("WITH"), Tok("SIGIL"), Id("s"), Tok("PLUS"), Tok("SUMMON"), Tok("WORK"), Id("G"),
                  Tok("WITH"), Id("s")>>)
              \o S(<<Tok("SAY"), Tok("COLON"), Id("b")>>)
PSummon == S(<<Tok("SUMMON"), Tok("WORK"), Id("H")>>)
           \o S(<<Tok("SUMMON"), Tok("WORK"), Id("G"), Tok("WITH"), Tok("SIGIL"), Id("a")>>)
PChamberLeak == Head2(<<Tok("CHAMBER"), Id("c")>>)
                \o S(<<Tok("LET"), Tok("EPHEMERAL"), Id("e"), Tok("BE"), Str("t")>>)
                \o S(<<Tok("LET"), Id("a"), Tok("BE"), Str("5")>>)
                \o S(<<Tok("ENTANGLE"), Id("k")>>)
                \o S(<<Tok("ENDCHAMBER")>>)
PChamber == Head2(<<Tok("CHAMBER")>>)
            \o S(<<Tok("ENTANGLE"), Tok("CORE"), Id("k")>>)
            \o S(<<Tok("RELEASE"), Id("k")>>)
            \o Head2(<<Tok("EPHEMERAL")>>)
            \o S(<<Tok("LET"), Id("a"), Tok("BE"), Str("7")>>)
            \o S(<<Tok("END"), Tok("EPHEMERAL")>>)
            \o S(<<Tok("ENDCHAMBER")>>)
PIf == Head2(<<Tok("IF"), Tok("SIGIL"), Id("a"), Id("EQUALS"), Str("1"), Id("THEN")>>)
       \o S(<<Tok("LET"), Tok("EPHEMERAL"), Id("e"), Tok("BE"), Str("y")>>)
       \o S(<<Tok("THUS"), Tok("WE"), Tok("ANSWER"), Id("a")>>)
       \o Head2(<<Tok("ELSE")>>)
       \o S(<<Tok("LET"), Id("b"), Tok("BE"), Str("n")>>)
       \o S(<<Tok("END")>>)

PEntangle == S(<<Tok("ENTANGLE"), Id("k")>>)
PRelease == S(<<Tok("RELEASE"), Id("k")>>)
\* the inner body fails when a is not bound
PNested == Head2(<<Tok("CHAMBER")>>)
           \o S(<<Tok("ENTANGLE"), Id("k")>>)
           \o Head2(<<Tok("CHAMBER"), Id("in")>>)
           \o S(<<Tok("ENTANGLE"), Id("k")>>)
           \o S(<<Tok("LET"), Id("b"), Tok("BE"), Str("3")>>)
           \o S(<<Tok("LET"), Id("b"), Tok("BE"), Id("a")>>)
           \o S(<<Tok("RELEASE"), Id("k")>>)
           \o S(<<Tok("ENDCHAMBER")>>)
           \o S(<<Tok("RELEASE"), Id("k")>>)
           \o S(<<Tok("ENDCHAMBER")>>)

PWeave == Head2(<<Tok("WEAVE")>>)
          \o S(<<Tok("SUMMON"), Tok("WORK"), Id("A")>>)
          \o S(<<Tok("SUMMON"), Tok("WORK"), Id("B")>>)
          \o S(<<Tok("SUMMON"), Tok("WORK"), Id("C")>>)
          \o S(<<Tok("ENDWEAVE")>>)

Pool == <<PSetup, PEphemeral, PSay, PThus, PSendBack, PRaise, POmenRaise, POmenCalm, POmenOther,
          PLetSummon, PSummon, PChamberLeak, PChamber, PIf, PWeave>>

RECURSIVE Flatten(_, _)
Flatten(p, k) == IF k > Len(p) THEN <<>> ELSE Pool[p[k]] \o Flatten(p, k + 1)

(***************************************************************************)
(* Activations of execWork.  A frame runs the tokens lo..hi of the body of *)
(* Work w (a block is a slice of the body of the Work it stands in), on    *)
(* the sigil table envs[env]; cont is what its caller does when it         *)
(* returns.  sig and lets are history: the failures raised in the dynamic  *)
(* extent of the frame that no nearer region is named for, and the last    *)
(* value bound to each name by the statements of the frame.  ans, in the   *)
(* frame of a Work, is history too: the values answered so far by the      *)
(* statements of the Work and of its blocks.  weave is 0, or the index of  *)
(* the first token of the WEAVE block whose loop the frame is in, and wlog *)
(* the SUMMONs that loop has started.                                      *)
(***************************************************************************)
None == [st |-> "none", val |-> "", omen |-> ""]
Cont(kind, next) ==
    [kind |-> kind, next |-> next, name |-> "", ruinStart |-> 0, ruinLo |-> 0, ruinHi |-> 0,
     snapshot |-> EmptyTable, old |-> {}]

NewFrame(w, lo, hi, env, own, capture, cont) ==
    [w |-> w, lo |-> lo, hi |-> hi, i |-> 1, env |-> env, own |-> own, eph |-> {},
     capture |-> capture, cont |-> cont, sres |-> <<>>, sig |-> {}, lets |-> EmptyTable, ans |-> <<>>,
     weave |-> 0, wlog |-> <<>>, iterations |-> 0, altar |-> 0]

WorkBody(w) == IF w = "MAIN" THEN main ELSE works[w].Body
RawToks(f) == SubSeq(WorkBody(f.w), f.lo, f.hi)
FrameToks(f) == cleanWorkBody(RawToks(f))
\* position in the body of the Work of the token before the first of the frame
Base(f) == f.lo - 1 + (Len(RawToks(f)) - Len(FrameToks(f)))

Top == stack[Len(stack)]
Toks == FrameToks(Top)
Sig == envs[Top.env]
Cur == skipNewlines(Toks, Top.i)
Running ==
    stack # <<>> /\ ret.st = "none" /\ Top.weave = 0 /\ Top.altar = 0 /\ Cur <= Len(Toks)
At(ty) == Running /\ Toks[Cur].t = ty

\* the frame of the Work the running frame is a block of, and what it has answered
UnitKinds == {"main", "summonStmt", "summonExpr", "weaveSummon", "choirBranch", "request"}
UnitRoot == CHOOSE j \in 1..Len(stack) :
                /\ stack[j].cont.kind \in UnitKinds
                /\ \A k \in (j + 1)..Len(stack) : stack[k].cont.kind \notin UnitKinds
Answered == stack[UnitRoot].ans

\* no request has arrived: the goroutine of MAIN (0) is the one running
NoServing == [cur |-> 0, parked |-> [stack |-> <<>>, envs |-> <<>>, ret |-> None], reqs |-> <<>>]

\* no CHOIR block is being run
NoChoir == [on |-> FALSE]

\* interpretProgram: MAIN runs on an empty table and prints its answer
StartState(m) ==
    /\ main = m
    /\ works = Works
    /\ stack = <<NewFrame("MAIN", 1, Len(m), 1, TRUE, FALSE, Cont("main", 0))>>
    /\ envs = <<EmptyTable>>
    /\ entangledCores = {}
    /\ out = <<>>
    /\ ret = None
    /\ choir = NoChoir
    /\ globalAltar = NilAltar
    /\ serving = NoServing
    /\ ev = [k |-> "init", t |-> "init", sig |-> {}, ans |-> <<>>]

Init == \E p \in [1..MaxStmts -> 1..Len(Pool)] : StartState(Flatten(p, 1))

(***************************************************************************)
(* The ways a statement ends.  ev is the last step taken, with the         *)
(* failures raised so far in the frame that took it.                       *)
(***************************************************************************)
\* the handler returned an error: execWork returns it
Fail(t, msg) ==
    /\ ret' = [st |-> "err", val |-> msg, omen |-> ""]
    /\ ev' = [k |-> "error", t |-> t, sig |-> Top.sig, ans |-> Answered]
    /\ UNCHANGED <<main, works, globalAltar, serving, choir, stack, envs, entangledCores, out>>

\* the handler returned next: the loop of execWork goes on there
Go(next, sigils, eph, lets, e) ==
    /\ stack' = [stack EXCEPT ![Len(stack)] =
                    [@ EXCEPT !.i = next, !.sres = <<>>, !.eph = eph, !.lets = lets]]
    /\ envs' = [envs EXCEPT ![Top.env] = sigils]
    /\ ev' = e
    /\ UNCHANGED <<main, works, globalAltar, serving, choir, ret>>

\* evalSummonExpr 3493-3518: the target runs on its own table, capturing its answer
CallFrom(caller, t, h, child, cont) ==
    /\ stack' = Append(caller, NewFrame(h.target, 1, Len(works[h.target].Body),
                                       summonEnv(Top.env, Len(envs) + 1), TRUE, TRUE, cont))
    /\ envs' = Append(envs, child)
    /\ ev' = [k |-> "summon", t |-> t, sig |-> Top.sig, ans |-> Answered, caller |-> Sig, child |-> child,
              target |-> h.target, argFromSigil |-> h.argFromSigil,
              argWasInvisible |-> h.argWasInvisible, argVal |-> h.argVal]
    /\ UNCHANGED <<main, works, globalAltar, serving, choir, entangledCores, out, ret>>

CallOn(t, h, child, cont) == CallFrom(stack, t, h, child, cont)

Call(t, h, kind, next) ==
    CallOn(t, h, summonChild(Sig, h), [Cont(kind, next) EXCEPT !.snapshot = Sig])

\* a SUMMON primary of the expression of the statement: the callee runs first
CallInExpr(t, r) == Call(t, summonHeader(r.toks, r.at, Sig), "summonExpr", 0)

\* execBlock: the slice lo..hi of the running frame as a mini-Work on the same table
Enter(lo, hi, cont, e) ==
    /\ stack' = Append([stack EXCEPT ![Len(stack)].sres = <<>>],
                       NewFrame(Top.w, Base(Top) + lo, Base(Top) + hi, Top.env, FALSE,
                                cont.kind = "omenBody", cont))
    /\ ev' = e
    /\ UNCHANGED <<main, works, globalAltar, serving, choir, envs, entangledCores, out, ret>>

\* execWork 999-1010 and 1125-1136: the answer is returned if captured, printed if not
Answer(t, val, tainted) ==
    /\ out' = IF Top.capture THEN out ELSE Append(out, val)
    /\ ret' = [st |-> "ans", val |-> IF Top.capture THEN val ELSE "", omen |-> ""]
    /\ ev' = [k |-> "answer", t |-> t, sig |-> Top.sig, ans |-> Answered, val |-> val,
              tainted |-> tainted, capture |-> Top.capture]
    /\ stack' = [stack EXCEPT ![UnitRoot].ans = Append(@, val)]
    /\ UNCHANGED <<main, works, globalAltar, serving, choir, envs, entangledCores>>

StmtEv(k, t) == [k |-> k, t |-> t, sig |-> Top.sig, ans |-> Answered]

(***************************************************************************)
(* The statements of execWork (runtime.go 988-1211).                       *)
(***************************************************************************)
SayStep(r) ==
    CASE r.st = "err" -> Fail("SAY", r.msg)
      [] r.st = "summon" -> CallInExpr("SAY", r)
      [] OTHER ->
         /\ out' = Append(out, r.line)
         /\ Go(r.next, Sig, Top.eph, Top.lets,
               [k |-> "say", t |-> "SAY", sig |-> Top.sig, ans |-> Answered, msg |-> r.msg,
                tainted |-> r.tainted, line |-> r.line, expr |-> r.expr])
         /\ UNCHANGED entangledCores

ExecSay == At("SAY") /\ SayStep(execSay(Toks, Cur, Sig, Top.sres))

LetStep(r) ==
    CASE r.st = "err" -> Fail("LET", r.msg)
      [] r.st = "summon" -> CallInExpr("LET", r)
      [] OTHER ->
         /\ Go(r.next, r.sigils,
               IF r.isEphemeral THEN Top.eph \cup {r.name} ELSE Top.eph,
               setSigil(Top.lets, r.name, r.val),
               [k |-> "let", t |-> "LET", sig |-> Top.sig, ans |-> Answered, name |-> r.name, val |-> r.val])
         /\ UNCHANGED <<entangledCores, out>>

ExecLet == At("LET") /\ LetStep(execLet(Toks, Cur, Sig, Top.sres))

EphemeralSigilStep(r) ==
    CASE r.st = "err" -> Fail("EPHEMERAL", r.msg)
      [] r.st = "summon" -> CallInExpr("EPHEMERAL", r)
      [] OTHER ->
         /\ Go(r.next, r.sigils, Top.eph \cup {r.name}, setSigil(Top.lets, r.name, r.val),
               [k |-> "let", t |-> "EPHEMERAL", sig |-> Top.sig, ans |-> Answered, name |-> r.name, val |-> r.val])
         /\ UNCHANGED <<entangledCores, out>>

ExecEphemeralSigil ==
    /\ At("EPHEMERAL")
    /\ TypeAt(Toks, Cur + 1) = "SIGIL"
    /\ EphemeralSigilStep(execEphemeralSigil(Toks, Cur, Sig, Top.sres))

BlockStep(t, r) ==
    IF r.st = "err" THEN Fail(t, r.msg)
    ELSE Enter(r.lo, r.hi, Cont("block", r.next), StmtEv("enter", t))

ExecEphemeralBlock ==
    /\ At("EPHEMERAL")
    /\ TypeAt(Toks, Cur + 1) # "SIGIL"
    /\ BlockStep("EPHEMERAL", execEphemeralBlock(Toks, Cur))

\* the frames a failure raised in the top frame leaves: those up to the body of
\* the nearest region named for it, or all of them
Catchers(name) ==
    {j \in 1..Len(stack) : stack[j].cont.kind = "omenBody" /\ stack[j].cont.name = name}
Reach(name) ==
    IF Catchers(name) = {} THEN 1
    ELSE CHOOSE j \in Catchers(name) : \A k \in Catchers(name) : k <= j

RaiseStep(r) ==
    IF r.st = "err" THEN Fail("RAISE", r.msg)
    ELSE /\ stack' = [j \in 1..Len(stack) |->
                        IF j < Reach(r.name) THEN stack[j]
                        ELSE IF j < Len(stack) THEN [stack[j] EXCEPT !.sig = @ \cup {r.name}]
                        ELSE [stack[j] EXCEPT !.sig = @ \cup {r.name}, !.i = r.next, !.sres = <<>>]]
         /\ envs' = [envs EXCEPT ![Top.env] = r.sigils]
         /\ ev' = [k |-> "raise", t |-> "RAISE", sig |-> Top.sig, ans |-> Answered, name |-> r.name]
         /\ UNCHANGED <<main, works, globalAltar, serving, choir, entangledCores, out, ret>>

ExecRaiseOmen == At("RAISE") /\ RaiseStep(execRaiseOmen(Toks, Cur, Sig))

OmenStep(r) ==
    IF r.st = "err" THEN Fail("OMEN", r.msg)
    ELSE Enter(r.lo, r.hi,
               [Cont("omenBody", r.next) EXCEPT !.name = r.omenName, !.ruinStart = r.ruinStart,
                  !.ruinLo = r.ruinLo, !.ruinHi = r.ruinHi, !.snapshot = cloneSigils(Sig)],
               StmtEv("enter", "OMEN"))

ExecOmenBlock == At("OMEN") /\ OmenStep(execOmenBlock(Toks, Cur))

SummonStep(r) ==
    IF r.st = "err" THEN Fail("SUMMON", r.msg)
    ELSE Call("SUMMON", r.h, "summonStmt", r.next)

ExecSummonStmt == At("SUMMON") /\ SummonStep(execSummonStmt(Toks, Cur, Sig))

WeaveStep(r) ==
    IF r.st = "err" THEN Fail("WEAVE", r.msg)
    ELSE /\ stack' = [stack EXCEPT ![Len(stack)] =
                         [@ EXCEPT !.i = r.next, !.sres = <<>>, !.weave = r.next, !.wlog = <<>>]]
         /\ ev' = StmtEv("enter", "WEAVE")
         /\ UNCHANGED <<main, works, globalAltar, serving, choir, envs, entangledCores, out, ret>>

ExecWeaveBlock == At("WEAVE") /\ WeaveStep(execWeaveBlock(Toks, Cur))

\* the frame is in the loop of execWeaveBlock
InWeave == stack # <<>> /\ ret.st = "none" /\ Top.weave # 0

WeaveLoopStep(r) ==
    CASE r.st = "err" -> Fail("WEAVE", r.msg)
      [] r.st = "end" ->
         /\ stack' = [stack EXCEPT ![Len(stack)] = [@ EXCEPT !.i = r.next, !.weave = 0]]
         /\ ev' = StmtEv("leave", "WEAVE")
         /\ UNCHANGED <<main, works, globalAltar, serving, choir, envs, entangledCores, out, ret>>
      [] OTHER ->
         CallFrom([stack EXCEPT ![Len(stack)].wlog =
                       Append(@, [target |-> r.h.target, res |-> "run"])],
                  "SUMMON", r.h, summonChild(Sig, r.h),
                  [Cont("weaveSummon", r.next) EXCEPT !.snapshot = Sig])

WeaveLoop == InWeave /\ WeaveLoopStep(weaveLoop(Toks, Cur, Sig))

\* whether the expression answered is tainted by a restricted name
TaintOf(r) == r.st = "ok" /\ evalStringExprTainted(r.expr, Sig, Top.sres).tainted

ThusStep(r) ==
    CASE r.st = "err" -> Fail("THUS", r.msg)
      [] r.st = "summon" -> CallInExpr("THUS", r)
      [] OTHER -> Answer("THUS", r.val, TaintOf(r))

ExecThus == At("THUS") /\ ThusStep(execThus(Toks, Cur, Sig, Top.sres))

SendBackStep(r) ==
    CASE r.st = "err" -> Fail("SEND", r.msg)
      [] r.st = "summon" -> CallInExpr("SEND", r)
      [] OTHER -> Answer("SEND", r.val, r.tainted)

ExecSendBack ==
    /\ At("IDENT")
    /\ Toks[Cur].lx = "SEND"
    /\ SendBackStep(execSendBack(Toks, Cur, Sig, Top.sres))

\* execWork 1157-1166: IF followed by OMEN is the IF of execIfOmen
IfOmenStep(r) ==
    CASE r.st = "err" -> Fail("IF", r.msg)
      [] r.run -> Enter(r.lo, r.hi, Cont("block", r.next),
                        [k |-> "enter", t |-> "IFOMEN", sig |-> Top.sig, ans |-> Answered,
                         name |-> r.name, cond |-> r.cond, table |-> Sig])
      [] OTHER -> /\ Go(r.next, Sig, Top.eph, Top.lets,
                        [k |-> "skip", t |-> "IFOMEN", sig |-> Top.sig, ans |-> Answered,
                         name |-> r.name, cond |-> r.cond, table |-> Sig])
                  /\ UNCHANGED <<entangledCores, out>>

ExecIfOmen ==
    /\ At("IF")
    /\ TypeAt(Toks, Cur + 1) = "OMEN"
    /\ IfOmenStep(execIfOmen(Toks, Cur, Sig))

\* execWork 1138-1144: the statement FALLS_TO_RUIN: message.
RuinStep(r) ==
    CASE r.st = "err" -> Fail("FALLS_TO_RUIN", r.msg)
      [] r.st = "summon" -> CallInExpr("FALLS_TO_RUIN", r)
      [] OTHER ->
         /\ out' = Append(out, r.line)
         /\ Go(r.next, r.sigils, Top.eph, Top.lets,
               [k |-> "ruin", t |-> "FALLS_TO_RUIN", sig |-> Top.sig, ans |-> Answered,
                before |-> Sig])
         /\ UNCHANGED entangledCores

ExecFallsToRuin ==
    /\ At("IDENT")
    /\ Toks[Cur].lx = "FALLS_TO_RUIN"
    /\ RuinStep(execFallsToRuin(Toks, Cur, Sig, Top.sres))

IfStep(r) ==
    CASE r.st = "err" -> Fail("IF", r.msg)
      [] r.st = "summon" -> CallInExpr("IF", r)
      [] r.run -> Enter(r.lo, r.hi, Cont("block", r.next), StmtEv("enter", "IF"))
      [] OTHER -> /\ Go(r.next, Sig, Top.eph, Top.lets, StmtEv("skip", "IF"))
                  /\ UNCHANGED <<entangledCores, out>>

ExecIf ==
    /\ At("IF")
    /\ TypeAt(Toks, Cur + 1) # "OMEN"
    /\ IfStep(execIf(Toks, Cur, Sig, Top.sres))

\* execWhile 2118-2142: a turn of the loop.  The frame stays on the WHILE while the
\* body runs as a block, and counts the turns taken in iterations.
WhileStep(r) ==
    CASE r.st = "err" -> Fail("WHILE", r.msg)
      [] r.st = "summon" -> CallInExpr("WHILE", r)
      [] r.run ->
         /\ stack' = Append([stack EXCEPT ![Len(stack)] =
                                [@ EXCEPT !.sres = <<>>, !.iterations = @ + 1]],
                            NewFrame(Top.w, Base(Top) + r.lo, Base(Top) + r.hi, Top.env, FALSE,
                                     FALSE, Cont("whileBody", Cur)))
         /\ ev' = [k |-> "enter", t |-> "WHILE", sig |-> Top.sig, ans |-> Answered,
                   iterations |-> Top.iterations + 1]
         /\ UNCHANGED <<main, works, globalAltar, serving, choir, envs, entangledCores, out, ret>>
      [] OTHER ->
         /\ stack' = [stack EXCEPT ![Len(stack)] =
                         [@ EXCEPT !.i = r.next, !.sres = <<>>, !.iterations = 0]]
         /\ ev' = [k |-> "loopEnd", t |-> "WHILE", sig |-> Top.sig, ans |-> Answered,
                   iterations |-> Top.iterations]
         /\ UNCHANGED <<main, works, globalAltar, serving, choir, envs, entangledCores, out, ret>>

ExecWhile == At("WHILE") /\ WhileStep(execWhile(Toks, Cur, Top.iterations, Sig, Top.sres))

(***************************************************************************)
(* ALTAR as steps of the declaring frame: the binding of the server, then  *)
(* a step for each ROUTE, each under altarMu, then ENDALTAR.  The frame    *)
(* is in the loop of the block while its altar field is 1.                 *)
(***************************************************************************)
awakening(addr) == "[SIC ALTAR] ALTAR awakening at " \o addr \o "."
routeLine(r) ==
    "[SIC ALTAR ROUTE] Route " \o r.method \o " " \o r.path
        \o (IF r.kind = "work" THEN " -> WORK " \o r.h ELSE " -> inline SEND BACK")

AltarBound(r, b) ==
    /\ out' = Append(out, awakening(r.addr))
    /\ ret' = IF b.st = "err" THEN [st |-> "err", val |-> b.msg, omen |-> ""] ELSE ret
    /\ globalAltar' = IF b.st = "err" THEN globalAltar ELSE b.srv
    /\ stack' = IF b.st = "err" THEN stack
                ELSE [stack EXCEPT ![Len(stack)] =
                         [@ EXCEPT !.i = r.next, !.sres = <<>>, !.altar = 1]]
    /\ ev' = [k |-> IF b.st = "err" THEN "error" ELSE "bind", t |-> "ALTAR", sig |-> Top.sig,
              ans |-> Answered, addr |-> r.addr, before |-> globalAltar,
              launch |-> b.st = "ok" /\ b.launch]
    /\ UNCHANGED <<main, works, choir, serving, envs, entangledCores>>

AltarStep(r) ==
    IF r.st = "err" THEN Fail("ALTAR", r.msg) ELSE AltarBound(r, altarBind(globalAltar, r.addr))

ExecAltarBlock == At("ALTAR") /\ AltarStep(altarAddr(Toks, Cur))

InAltar == stack # <<>> /\ ret.st = "none" /\ Top.altar = 1

\* a panic on the goroutine of a Work ends the process
Panicked(msg) == [st |-> "fatal", val |-> msg, omen |-> ""]

\* the table of the declaring frame as it is when the route is declared, kept beside
\* the handler the mux has just been given
DeclaredAt(srv, table) ==
    [srv EXCEPT !.mux = [k \in 1..Len(srv.mux) |->
                            IF k = Len(srv.mux) THEN [seen |-> table] @@ srv.mux[k]
                            ELSE srv.mux[k]]]

AltarRegistered(r, g) ==
    /\ out' = Append(out, routeLine(r))
    /\ ret' = CASE g.st = "err" -> [st |-> "err", val |-> g.msg, omen |-> ""]
                [] g.st = "panic" -> Panicked(g.msg)
                [] OTHER -> ret
    /\ globalAltar' = CASE g.st = "err" -> globalAltar
                        [] g.st = "panic" -> g.srv
                        [] OTHER -> DeclaredAt(g.srv, Sig)
    /\ stack' = CASE g.st = "err" -> stack
                  [] g.st = "panic" -> <<>>
                  [] OTHER -> [stack EXCEPT ![Len(stack)] = [@ EXCEPT !.i = r.next, !.sres = <<>>]]
    /\ envs' = IF g.st = "panic" THEN <<>> ELSE envs
    /\ choir' = IF g.st = "panic" THEN NoChoir ELSE choir
    /\ ev' = [k |-> CASE g.st = "err" -> "error" [] g.st = "panic" -> "fatal" [] OTHER -> "route",
              t |-> "ROUTE", sig |-> Top.sig, ans |-> Answered, key |-> routeKey(r.method, r.path),
              before |-> globalAltar, route |-> r, parent |-> Top.env]
    /\ UNCHANGED <<main, works, serving, entangledCores>>

AltarLoopStep(r) ==
    CASE r.st = "err" -> Fail("ALTAR", r.msg)
      [] r.st = "end" ->
         /\ stack' = [stack EXCEPT ![Len(stack)] =
                         [@ EXCEPT !.i = r.next, !.sres = <<>>, !.altar = 0]]
         /\ ev' = [k |-> "altarEnd", t |-> "ALTAR", sig |-> Top.sig, ans |-> Answered,
                   at |-> Cur]
         /\ UNCHANGED <<main, works, globalAltar, serving, choir, envs, entangledCores, out, ret>>
      [] OTHER -> AltarRegistered(r, altarRegister(globalAltar, r, Top.env))

AltarLoop == InAltar /\ AltarLoopStep(altarLoop(Toks, Cur))

(***************************************************************************)
(* The requests.  The listener runs each request on a goroutine of its     *)
(* own, beside the goroutine of MAIN; the process ends when MAIN returns.  *)
(* stack, envs and ret are those of the goroutine that is running          *)
(* (serving.cur, 0 for MAIN); MAIN when it is not running is in            *)
(* serving.parked and the requests in serving.reqs.                        *)
(***************************************************************************)
\* the requests a run takes are at most MaxRequests, from RequestPool
MaxRequests == 2
RequestPool ==
    {[method |-> "GET", path |-> "/a"], [method |-> "POST", path |-> "/a"],
     [method |-> "GET", path |-> "/b"]}

MainAlive == IF serving.cur = 0 THEN stack # <<>> ELSE serving.parked.stack # <<>>
Listening == ~globalAltar.nil /\ globalAltar.started
MainEnvs == IF serving.cur = 0 THEN envs ELSE serving.parked.envs

\* r.URL.RawQuery, empty for the requests that carry no query
RawQuery(q) == IF "raw" \in DOMAIN q THEN q.raw ELSE ""

NoResp == [status |-> 0, body |-> "", ct |-> ""]
NewRequest(q) ==
    [st |-> "new", method |-> q.method, path |-> q.path, stack |-> <<>>, envs |-> <<>>,
     ret |-> None, resp |-> NoResp, route |-> 0, child0 |-> EmptyTable, last |-> EmptyTable,
     raw |-> RawQuery(q)]

\* the goroutines, the running one put aside
Aside ==
    IF serving.cur = 0
    THEN [serving EXCEPT !.parked = [stack |-> stack, envs |-> envs, ret |-> ret]]
    ELSE [serving EXCEPT !.reqs[serving.cur] =
             [@ EXCEPT !.stack = stack, !.envs = envs, !.ret = ret]]

\* getResponseStatus 3023-3037
getResponseStatus(sigils) ==
    LET raw == TrimSpace(getSigil(sigils, "response_status").v)
    IN  IF raw \in DOMAIN NumOf /\ NumOf[raw] >= 100 /\ NumOf[raw] <= 599 THEN NumOf[raw] ELSE 200

\* pickResponseBody 3057-3065
pickResponseBody(defaultBody, sigils) ==
    IF TrimSpace(getSigil(sigils, "response_body").v) # ""
    THEN TrimSpace(getSigil(sigils, "response_body").v)
    ELSE defaultBody

textPlain == "text/plain; charset=utf-8"

\* strings.HasSuffix(path, ".json"), over the paths of the model
JsonPaths == {"/d.json"}

chooseContentType_json(defaultCT, path, sigils) == "application/json; charset=utf-8"

\* chooseContentType 3012-3021
chooseContentType(defaultCT, path, sigils) ==
    IF TrimSpace(getSigil(sigils, "response_content_type").v) # ""
    THEN TrimSpace(getSigil(sigils, "response_content_type").v)
    ELSE IF path \in JsonPaths THEN "application/json; charset=utf-8"
    ELSE defaultCT

\* http.Error: the message on a line, as plain text
httpError(code, msg) == [status |-> code, body |-> msg \o "\n", ct |-> textPlain]

\* the handler of a route once the Work or the expression has returned (3280-3298,
\* 3376-3394): what is written to the client
respond(r, child, p) ==
    IF r.st = "err" THEN httpError(500, "internal error")
    ELSE [status |-> getResponseStatus(child),
          body |-> pickResponseBody(IF r.val = "" THEN "OK" ELSE r.val, child) \o "\n",
          ct |-> chooseContentType(textPlain, p, child)]

\* r.URL.Query(), over the queries of the model: the parameters in the order of the
\* query, as key and value
QueryTable ==
    ("" :> <<>>)
    @@ ("name=Ada" :> <<[k |-> "name", v |-> "Ada"]>>)
    @@ ("Name=Bob&lang=en" :> <<[k |-> "Name", v |-> "Bob"], [k |-> "lang", v |-> "en"]>>)
    @@ ("name=Ada&name=Eve" :> <<[k |-> "name", v |-> "Ada"], [k |-> "name", v |-> "Eve"]>>)
    @@ ("lang=en" :> <<[k |-> "lang", v |-> "en"]>>)

RECURSIVE injectQuery_asIs(_, _, _)
injectQuery_asIs(child, query, j) ==
    IF j = 0 THEN child
    ELSE injectQuery_asIs(setSigil(child, "Q_" \o query[j].k, query[j].v), query, j - 1)

\* injectRequestSigils 2985-2995: Q_<KEY> is the first value of the key, for queries
\* no two keys of which differ in case alone; the parameters from j down
RECURSIVE injectQuery(_, _, _)
injectQuery(child, query, j) ==
    IF j = 0 THEN child
    ELSE injectQuery(setSigil(child, "Q_" \o ToUpper(query[j].k), query[j].v), query, j - 1)

\* injectRequestSigils 2968-3005, for a request without body
injectRequestSigils(child, q) ==
    setSigil(injectQuery(setSigil(setSigil(setSigil(child, "REQUEST_METHOD", q.method),
                                           "REQUEST_PATH", q.path),
                                  "REQUEST_QUERY", RawQuery(q)),
                         QueryTable[RawQuery(q)], Len(QueryTable[RawQuery(q)])),
             "REQUEST_BODY", "")

\* 3267-3272 and 3369-3374: the table of a request, the visible entries of the
\* table of the declaring frame as it is now, then the sigils of the request
requestChild(parent, q) == injectRequestSigils(cloneVisibleSigils(EmptyTable, parent), q)

\* the handler the mux has for the path, 0 when it has none
routeFor(srv, path) ==
    IF path \in Patterns(srv) THEN CHOOSE k \in 1..Len(srv.mux) : srv.mux[k].pattern = path ELSE 0

\* the handler of a SEND BACK route (3362-3396), its expression evaluated
sendResponse(val, child, p) ==
    IF val.st # "ok" THEN httpError(500, "internal error")
    ELSE respond([st |-> "ok", val |-> val.s], child, p)

\* what a request gets without a Work being run: the reply of the mux or of the
\* handler, or a Work to run on the table child (the expressions of the routes of the
\* model hold no SUMMON)
serveStart(srv, q, k, child) ==
    CASE k = 0 -> [st |-> "done", resp |-> httpError(404, "404 page not found")]
      [] srv.mux[k].m # q.method ->
            [st |-> "done", resp |-> httpError(405, "method not allowed")]
      [] srv.mux[k].kind = "work" /\ findWork(srv.mux[k].h) = <<>> ->
            [st |-> "done", resp |-> httpError(404, "handler not found")]
      [] srv.mux[k].kind = "work" -> [st |-> "run", h |-> srv.mux[k].h]
      [] OTHER ->
            [st |-> "done", resp |-> sendResponse(evalStringExpr(srv.mux[k].expr, child, <<>>), child,
                                                  srv.mux[k].pattern)]

\* a request arrives at the listener
ArriveFrom(pool) ==
    /\ MainAlive
    /\ Listening
    /\ Len(serving.reqs) < MaxRequests
    /\ \E q \in pool :
         /\ serving' = [serving EXCEPT !.reqs = Append(@, NewRequest(q))]
         /\ ev' = [k |-> "arrive", t |-> "REQUEST", sig |-> {}, ans |-> <<>>, q |-> q]
    /\ UNCHANGED <<main, works, stack, envs, entangledCores, out, ret, choir, globalAltar>>

Arrive == ArriveFrom(RequestPool)

\* the table a handler clones: that of the declaring frame, as it is now
ParentOf(k) == IF k = 0 THEN EmptyTable ELSE MainEnvs[globalAltar.mux[k].parent]

\* the goroutine of the request g starts: the mux finds the handler, which replies at
\* once or calls its Work
ServeStep(g, q, k, child, r) ==
    /\ stack' = IF r.st = "done" THEN stack
                ELSE <<NewFrame(r.h, 1, Len(works[r.h].Body), 1, TRUE, TRUE, Cont("request", 0))>>
    /\ envs' = IF r.st = "done" THEN envs ELSE <<child>>
    /\ ret' = IF r.st = "done" THEN ret ELSE None
    /\ serving' =
          IF r.st = "done"
          THEN [serving EXCEPT !.reqs[g] =
                   [@ EXCEPT !.st = "done", !.resp = r.resp, !.route = k, !.child0 = child,
                             !.last = child]]
          ELSE [Aside EXCEPT !.cur = g, !.reqs[g] = [@ EXCEPT !.st = "run", !.route = k, !.child0 = child]]
    /\ ev' = [k |-> "serve", t |-> "REQUEST", sig |-> {}, ans |-> <<>>, g |-> g, q |-> q,
              route |-> k, child |-> child, parent |-> ParentOf(k), done |-> r.st = "done"]
    /\ UNCHANGED <<main, works, entangledCores, out, choir, globalAltar>>

ServeOf(g, q, k, child) == ServeStep(g, q, k, child, serveStart(globalAltar, q, k, child))

ServeAt(g, q, k) == ServeOf(g, q, k, requestChild(ParentOf(k), q))

Serve ==
    /\ MainAlive
    /\ \E g \in 1..Len(serving.reqs) :
         /\ serving.reqs[g].st = "new"
         /\ ServeAt(g, serving.reqs[g], routeFor(globalAltar, serving.reqs[g].path))

\* the scheduler takes the running goroutine off and runs g
Resume(g) ==
    /\ stack' = IF g = 0 THEN serving.parked.stack ELSE serving.reqs[g].stack
    /\ envs' = IF g = 0 THEN serving.parked.envs ELSE serving.reqs[g].envs
    /\ ret' = IF g = 0 THEN serving.parked.ret ELSE serving.reqs[g].ret
    /\ serving' = [Aside EXCEPT !.cur = g]
    /\ ev' = [k |-> "resume", t |-> "REQUEST", sig |-> {}, ans |-> <<>>, g |-> g]
    /\ UNCHANGED <<main, works, entangledCores, out, choir, globalAltar>>

Switch ==
    /\ MainAlive
    /\ \E g \in 0..Len(serving.reqs) :
         /\ g # serving.cur
         /\ g # 0 => serving.reqs[g].st = "run"
         /\ Resume(g)

\* the statements of execWork that write the table of the frame
TableWriters == {"LET", "EPHEMERAL", "RAISE"}

\* 3267 and 3369 against setSigil 46-48: a handler ranging over the table of the
\* declaring frame while MAIN writes it is a data race; the Go runtime may end the
\* process (fatal error: concurrent map iteration and map write)
TableRace ==
    /\ serving.cur = 0
    /\ Running
    /\ Toks[Cur].t \in TableWriters
    /\ \E g \in 1..Len(serving.reqs) :
         /\ serving.reqs[g].st = "new"
         /\ routeFor(globalAltar, serving.reqs[g].path) # 0
         /\ globalAltar.mux[routeFor(globalAltar, serving.reqs[g].path)].m = serving.reqs[g].method
         /\ globalAltar.mux[routeFor(globalAltar, serving.reqs[g].path)].parent = Top.env
    /\ ret' = Panicked("fatal error: concurrent map iteration and map write")
    /\ stack' = <<>>
    /\ envs' = <<>>
    /\ ev' = [k |-> "fatal", t |-> Toks[Cur].t, sig |-> Top.sig, ans |-> Answered]
    /\ UNCHANGED <<main, works, globalAltar, serving, choir, entangledCores, out>>

chamberEnv_shared(callerEnv, fresh) == callerEnv

\* `childSigils := cloneSigils(sigils)`: the body runs on the clone
chamberEnv(callerEnv, fresh) == fresh

\* execChamberBlock 2211-2218: the body runs on a clone and an empty ledger
ChamberStep(r) ==
    IF r.st = "err" THEN Fail("CHAMBER", r.msg)
    ELSE /\ stack' = Append([stack EXCEPT ![Len(stack)].sres = <<>>],
                            NewFrame(Top.w, Base(Top) + r.lo, Base(Top) + r.hi,
                                     chamberEnv(Top.env, Len(envs) + 1), TRUE, FALSE,
                                     [Cont("chamber", r.next) EXCEPT !.old = entangledCores,
                                                                     !.snapshot = Sig]))
         /\ envs' = Append(envs, cloneSigils(Sig))
         /\ entangledCores' = {}
         /\ ev' = StmtEv("enter", "CHAMBER")
         /\ UNCHANGED <<main, works, globalAltar, serving, choir, out, ret>>

ExecChamberBlock == At("CHAMBER") /\ ChamberStep(execChamberBlock(Toks, Cur))

LedgerStep(t, r) ==
    IF r.st = "err" THEN Fail(t, r.msg)
    ELSE /\ entangledCores' = r.cores
         /\ Go(r.next, Sig, Top.eph, Top.lets, StmtEv("ledger", t))
         /\ UNCHANGED out

ExecEntangle == At("ENTANGLE") /\ LedgerStep("ENTANGLE", execEntangle(Toks, Cur, entangledCores))

ExecRelease == At("RELEASE") /\ LedgerStep("RELEASE", execRelease(Toks, Cur, entangledCores))

\* the case labels of the switch of execWork
StatementTypes ==
    {"THUS", "SAY", "LET", "EPHEMERAL", "RAISE", "OMEN", "WEAVE", "CHOIR", "WHILE", "ALTAR",
     "SUMMON", "SLEEP", "IF", "CHAMBER", "ENTANGLE", "RELEASE", "ARCWORK"}

\* `// Default: move on`
MoveOn ==
    /\ Running
    /\ Toks[Cur].t \notin StatementTypes
    /\ Toks[Cur].t = "IDENT" => Toks[Cur].lx \notin {"SEND", "FALLS_TO_RUIN", "SLEEP"}
    /\ Go(Cur + 1, Sig, Top.eph, Top.lets, StmtEv("move", Toks[Cur].t))
    /\ UNCHANGED <<entangledCores, out>>

(***************************************************************************)
(* The return of execWork to its caller: the deferred scrub of the frame,  *)
(* then what the caller does with the result.                              *)
(***************************************************************************)
\* running off the end of the body returns "", nil
Result == IF ret.st = "none" THEN [st |-> "ok", val |-> "", omen |-> ""] ELSE ret

Proceed == [ret |-> None, rollback |-> FALSE, recover |-> FALSE]
Propagate(r) == [ret |-> r, rollback |-> FALSE, recover |-> FALSE]

afterOmenBody_recover(cont, r) ==
    [ret |-> None, rollback |-> TRUE, recover |-> cont.ruinStart # 0]

\* execBlockWithOmen and execOmenBlock 2433-2479
afterOmenBody(cont, r) ==
    IF r.st = "err" /\ r.omen = "" THEN Propagate(r)
    ELSE IF r.st # "err" THEN Proceed
    ELSE IF r.omen # cont.name THEN Propagate(r)
    ELSE [ret |-> None, rollback |-> TRUE, recover |-> cont.ruinStart # 0]

afterChamber_noLeak(r, cores) == IF r.st = "err" THEN Propagate(r) ELSE Proceed

\* execChamberBlock 2220-2235
afterChamber(r, cores) ==
    IF r.st = "err" THEN Propagate(r)
    ELSE IF cores # {}
         THEN Propagate([st |-> "err", val |-> "EPHEMERAL: entangle leak in CHAMBER", omen |-> ""])
    ELSE Proceed

afterWeaveSummon_goOn(r) == Proceed

\* execWeaveBlock 2810-2817: the result of a SUMMON of the block
afterWeaveSummon(r) == IF r.st = "err" THEN Propagate(r) ELSE Proceed

\* what the caller of execWork does with its result
afterWork(cont, r, cores) ==
    CASE cont.kind \in {"main", "choirBranch", "request"} -> Propagate(r)
      [] cont.kind = "weaveSummon" -> afterWeaveSummon(r)
      [] cont.kind = "omenBody" -> afterOmenBody(cont, r)
      [] cont.kind = "chamber" -> afterChamber(r, cores)
      [] OTHER -> IF r.st = "err" THEN Propagate(r) ELSE Proceed

\* the bindings a frame has made, a block of it having returned
mergeLets(lets, blockLets, blockEph) ==
    [n \in (DOMAIN lets \cup DOMAIN blockLets) \ blockEph |->
        IF n \in DOMAIN blockLets THEN blockLets[n] ELSE lets[n]]

Parent == stack[Len(stack) - 1]
Popped == SubSeq(stack, 1, Len(stack) - 1)

\* the caller of the returning frame f, going on
Resumed(f, r) ==
    CASE f.cont.kind = "summonExpr" -> [Parent EXCEPT !.sres = Append(@, r.val)]
      [] f.cont.kind \in {"block", "omenBody", "whileBody"} ->
            [Parent EXCEPT !.i = f.cont.next, !.sres = <<>>,
                           !.lets = mergeLets(@, f.lets, f.eph)]
      [] f.cont.kind = "weaveSummon" ->
            [Parent EXCEPT !.i = f.cont.next, !.sres = <<>>,
                           !.wlog[Len(Parent.wlog)].res = IF r.st = "err" THEN "err" ELSE "ok"]
      [] OTHER -> [Parent EXCEPT !.i = f.cont.next, !.sres = <<>>]

\* execOmenBlock 2464-2475: the recovery body as a block of the caller
RuinFrame(f) ==
    NewFrame(Parent.w, Base(Parent) + f.cont.ruinLo, Base(Parent) + f.cont.ruinHi, Parent.env,
             FALSE, FALSE, Cont("block", f.cont.next))

restoreLedger_keep(cont, cores) == cores

\* execChamberBlock 2221, 2227, 2235: `entangledCores = oldEntangled`
restoreLedger(cont, cores) == IF cont.kind = "chamber" THEN cont.old ELSE cores

\* the tables once f has returned: its ephemeral names scrubbed, its own table dropped
\* the activations that are the whole of a goroutine
RootKinds == {"main", "choirBranch", "request"}

served_onParent(f, r, scrubbed) ==
    IF f.cont.kind # "request" THEN serving
    ELSE [serving EXCEPT !.reqs[serving.cur] =
                             [@ EXCEPT !.st = "done", !.resp = respond(r, scrubbed, serving.reqs[serving.cur].path), !.last = scrubbed],
                         !.parked.envs[globalAltar.mux[serving.reqs[serving.cur].route].parent] =
                             scrubbed]

\* the goroutines of the requests, the Work of the running one having returned: its
\* table child is the handler's own (child := make(sigilTable), 3267 and 3369) and is
\* dropped with the reply
served(f, r, scrubbed) ==
    IF f.cont.kind # "request" THEN serving
    ELSE [serving EXCEPT !.reqs[serving.cur] =
             [@ EXCEPT !.st = "done", !.resp = respond(r, scrubbed, serving.reqs[serving.cur].path), !.last = scrubbed]]

ExitEnvs(f, scrubbed, a) ==
    IF f.own THEN SubSeq([envs EXCEPT ![f.env] = scrubbed], 1, Len(envs) - 1)
    ELSE IF a.rollback THEN [envs EXCEPT ![f.env] = f.cont.snapshot]
    ELSE [envs EXCEPT ![f.env] = scrubbed]

ExitStep(f, r, scrubbed, a) ==
    /\ envs' = ExitEnvs(f, scrubbed, a)
    /\ stack' = IF f.cont.kind \in RootKinds THEN <<>>
                ELSE IF a.ret.st # "none" THEN Popped
                ELSE IF a.recover THEN Append(Popped, RuinFrame(f))
                ELSE [Popped EXCEPT ![Len(stack) - 1] = Resumed(f, r)]
    /\ ret' = a.ret
    /\ entangledCores' = restoreLedger(f.cont, entangledCores)
    /\ ev' = [k |-> "exit", t |-> "exit", sig |-> f.sig, ans |-> Answered, val |-> r.val,
              capture |-> f.capture, ck |-> f.cont.kind, how |-> r.st,
              cores |-> entangledCores, old |-> f.cont.old,
              eph |-> f.eph, env |-> scrubbed, lets |-> f.lets, name |-> f.cont.name,
              snapshot |-> f.cont.snapshot, ruin |-> f.cont.ruinStart # 0,
              recovery |-> a.recover, result |-> a.ret.st,
              penv |-> IF f.cont.kind \in RootKinds THEN scrubbed ELSE envs'[Parent.env]]
    /\ serving' = served(f, [st |-> ev'.how, val |-> ev'.val], ev'.env)
    /\ UNCHANGED <<main, works, globalAltar, choir, out>>

WorkExit ==
    /\ stack # <<>>
    /\ ret.st # "none" \/ (Top.weave = 0 /\ Top.altar = 0 /\ Cur > Len(Toks))
    /\ ExitStep(Top, Result, scrubEphemeral(Sig, Top.eph), afterWork(Top.cont, Result, entangledCores))

(***************************************************************************)
(* CHOIR (execChoirBlock 2913-2952).  The frame that executes the block    *)
(* waits in choir with its stack and tables; each SUMMON of the block is a *)
(* goroutine with a stack and tables of its own, and what they share is    *)
(* entangledCores and stdout.  stack, envs and ret are those of the        *)
(* goroutine that is running (choir.cur); the others are parked in         *)
(* choir.br.  A goroutine is an activation over its one SUMMON statement,  *)
(* on its copy of the table of the waiting frame.                          *)
(***************************************************************************)
ChoirStep(r) ==
    CASE r.st = "err" -> Fail("CHOIR", r.msg)
      [] r.starts = <<>> ->
         /\ Go(r.next, Sig, Top.eph, Top.lets, StmtEv("skip", "CHOIR"))
         /\ UNCHANGED <<entangledCores, out>>
      [] OTHER ->
         /\ choir' = [on |-> TRUE, pstack |-> stack, penvs |-> envs, next |-> r.next, cur |-> 0,
                      w |-> Top.w, base |-> Base(Top), entry |-> Sig, cores0 |-> entangledCores,
                      fin |-> <<>>,
                      br |-> [b \in 1..Len(r.starts) |->
                                [st |-> "new", lo |-> r.starts[b].lo, hi |-> r.starts[b].hi,
                                 stack |-> <<>>, envs |-> <<>>, ret |-> None]]]
         /\ stack' = <<>>
         /\ envs' = <<>>
         /\ ev' = StmtEv("enter", "CHOIR")
         /\ UNCHANGED <<main, works, globalAltar, serving, entangledCores, out, ret>>

ExecChoirBlock == At("CHOIR") /\ ChoirStep(execChoirBlock(Toks, Cur))

\* the goroutine b has returned
Done(b) == IF b = choir.cur THEN stack = <<>> ELSE choir.br[b].st = "done"

\* the goroutines, the running one put aside
Parked ==
    IF choir.cur = 0 THEN choir.br
    ELSE [choir.br EXCEPT ![choir.cur] =
             [@ EXCEPT !.st = IF stack = <<>> THEN "done" ELSE "run",
                       !.stack = stack, !.envs = envs, !.ret = ret]]

\* the order in which the goroutines have returned
Finished == IF choir.cur # 0 /\ stack = <<>> THEN Append(choir.fin, choir.cur) ELSE choir.fin

\* `go func()` 2918-2931: the scheduler runs the goroutine b, started now if it was
\* not yet
RunStep(b, c) ==
    /\ stack' = IF c.st = "new"
                THEN <<NewFrame(choir.w, choir.base + c.lo, choir.base + c.hi, 1, TRUE, FALSE,
                                Cont("choirBranch", 0))>>
                ELSE c.stack
    /\ envs' = IF c.st = "new" THEN <<choirChild(choir.entry)>> ELSE c.envs
    /\ ret' = IF c.st = "new" THEN None ELSE c.ret
    /\ choir' = [choir EXCEPT !.br = [Parked EXCEPT ![b].st = "run"], !.cur = b, !.fin = Finished]
    /\ ev' = [k |-> "run", t |-> "CHOIR", sig |-> {}, ans |-> <<>>, b |-> b, started |-> c.st = "new"]
    /\ UNCHANGED <<main, works, globalAltar, serving, entangledCores, out>>

ChoirRun ==
    /\ choir.on
    /\ \E b \in 1..Len(choir.br) :
         /\ b # choir.cur
         /\ choir.br[b].st # "done"
         /\ RunStep(b, choir.br[b])

\* whether the ENTANGLE or RELEASE at i writes the map
ledgerWrites(tokens, i, cores) ==
    CASE TypeAt(tokens, i) = "ENTANGLE" -> execEntangle(tokens, i, cores).st = "ok"
      [] TypeAt(tokens, i) = "RELEASE" -> execRelease(tokens, i, cores).st = "ok"
      [] OTHER -> FALSE
IsLedgerOp(tokens, i) == TypeAt(tokens, i) \in {"ENTANGLE", "RELEASE"}
frameCur(f) == skipNewlines(FrameToks(f), f.i)
\* the parked goroutine c is about to execute ENTANGLE or RELEASE
ParkedAtLedger(c) ==
    /\ c.st = "run"
    /\ c.stack # <<>>
    /\ c.ret.st = "none"
    /\ IsLedgerOp(FrameToks(c.stack[Len(c.stack)]), frameCur(c.stack[Len(c.stack)]))
ParkedWrites(c) ==
    ledgerWrites(FrameToks(c.stack[Len(c.stack)]), frameCur(c.stack[Len(c.stack)]), entangledCores)

\* entangledCores 35, execEntangle 1588-1592, execRelease 1614-1618: two goroutines
\* in the map at once, one of them writing, is a data race; the Go runtime may end
\* the process (fatal error: concurrent map writes / map read and map write)
LedgerRace ==
    /\ choir.on
    /\ At("ENTANGLE") \/ At("RELEASE")
    /\ \E b \in 1..Len(choir.br) :
         /\ b # choir.cur
         /\ ParkedAtLedger(choir.br[b])
         /\ ledgerWrites(Toks, Cur, entangledCores) \/ ParkedWrites(choir.br[b])
    /\ ret' = [st |-> "fatal", val |-> "fatal error: concurrent map writes", omen |-> ""]
    /\ stack' = <<>>
    /\ envs' = <<>>
    /\ choir' = NoChoir
    /\ ev' = [k |-> "fatal", t |-> Toks[Cur].t, sig |-> Top.sig, ans |-> Answered]
    /\ UNCHANGED <<main, works, globalAltar, serving, entangledCores, out>>

joinReady_any(done) == \E b \in DOMAIN done : done[b]

\* `wg.Wait()` 2937: every goroutine has returned
joinReady(done) == \A b \in DOMAIN done : done[b]

firstError_last(errs) ==
    IF \A b \in DOMAIN errs : errs[b].st # "err" THEN 0
    ELSE CHOOSE b \in DOMAIN errs :
            errs[b].st = "err" /\ \A c \in DOMAIN errs : c > b => errs[c].st # "err"

\* execChoirBlock 2939-2944: the first error of errs, 0 when there is none
firstError(errs) ==
    IF \A b \in DOMAIN errs : errs[b].st # "err" THEN 0
    ELSE CHOOSE b \in DOMAIN errs :
            errs[b].st = "err" /\ \A c \in DOMAIN errs : c < b => errs[c].st # "err"

\* errs, and which goroutines have returned
Errs == [b \in 1..Len(choir.br) |-> IF b = choir.cur THEN ret ELSE choir.br[b].ret]
DoneAll == [b \in 1..Len(choir.br) |-> Done(b)]

\* execChoirBlock 2937-2951: the waiting frame goes on, or returns the error
JoinStep(done, errs, first) ==
    /\ stack' = IF first # 0 THEN choir.pstack
                ELSE [choir.pstack EXCEPT ![Len(choir.pstack)] =
                         [@ EXCEPT !.i = choir.next, !.sres = <<>>]]
    /\ envs' = choir.penvs
    /\ ret' = IF first = 0 THEN None ELSE [st |-> "err", val |-> errs[first].val, omen |-> ""]
    /\ choir' = NoChoir
    /\ ev' = [k |-> "join", t |-> "CHOIR", sig |-> choir.pstack[Len(choir.pstack)].sig,
              ans |-> <<>>, done |-> done, errs |-> errs, first |-> first, fin |-> Finished,
              entry |-> choir.entry, cores0 |-> choir.cores0, br |-> choir.br,
              stmts |-> [b \in 1..Len(choir.br) |->
                           SubSeq(WorkBody(choir.w), choir.base + choir.br[b].lo,
                                  choir.base + choir.br[b].hi)]]
    /\ UNCHANGED <<main, works, globalAltar, serving, entangledCores, out>>

ChoirJoin ==
    /\ choir.on
    /\ choir.cur # 0
    /\ joinReady(DoneAll)
    /\ JoinStep(DoneAll, Errs, firstError(Errs))

Next ==
    \/ ExecThus
    \/ ExecSay
    \/ ExecLet
    \/ ExecEphemeralSigil
    \/ ExecEphemeralBlock
    \/ ExecRaiseOmen
    \/ ExecOmenBlock
    \/ ExecSummonStmt
    \/ ExecSendBack
    \/ ExecIf
    \/ ExecChamberBlock
    \/ ExecWeaveBlock
    \/ WeaveLoop
    \/ ExecEntangle
    \/ ExecRelease
    \/ MoveOn
    \/ WorkExit

Spec == Init /\ [][Next]_vars

(***************************************************************************)
(* Expressions on their own: MAIN binds a restricted name s and a plain    *)
(* name a, then says one expression of ExprPool.                           *)
(***************************************************************************)
SecretValues == {"sec", "2"}
Refs == {<<Id("s")>>, <<Tok("SIGIL"), Id("s")>>, <<Tok("DOLLAR"), Id("s")>>}
Plain == {<<Id("a")>>, <<Num("2")>>, <<Str("abc")>>}
Operands == Refs \cup Plain
BinOps == {"PLUS", "MINUS", "STAR", "SLASH", "PERCENT", "LT", "LTE", "GT", "GTE", "EQ", "NEQ",
           "AND", "OR"}
UnOps == {"MINUS", "NOT"}
ExprPool ==
    Operands
    \cup {l \o <<Tok(op)>> \o r : l \in Operands, op \in BinOps, r \in Operands}
    \cup {<<Tok(u)>> \o x : u \in UnOps, x \in Operands}
    \cup {<<Tok("LPAREN")>> \o x \o <<Tok("RPAREN"), Tok(op), Id("a")>> : x \in Refs, op \in BinOps}
    \cup {<<Id("a"), Tok(op), Tok(u)>> \o x : op \in {"PLUS", "AND"}, u \in UnOps, x \in Refs}

ExprProgram(v, e) ==
    S(<<Tok("LET"), Id("INVISIBLE"), Id("s"), Tok("BE"), Str(v)>>)
    \o S(<<Tok("LET"), Id("a"), Tok("BE"), Str("2")>>)
    \o S(<<Tok("SAY"), Tok("COLON")>> \o e)

InitExpr == \E v \in SecretValues, e \in ExprPool : StartState(ExprProgram(v, e))

NextExpr ==
    \/ ExecLet
    \/ ExecSay
    \/ WorkExit

SpecExpr == InitExpr /\ [][NextExpr]_vars

(***************************************************************************)
(* The ledger on its own: MAIN is made of passages that entangle, release  *)
(* and open CHAMBERs, after binding a or not.                              *)
(***************************************************************************)
MaxChamberStmts == 3
ChamberPool == <<PSetup, PChamberLeak, PChamber, PEntangle, PRelease, PNested>>

RECURSIVE FlattenChamber(_, _)
FlattenChamber(p, k) ==
    IF k > Len(p) THEN <<>> ELSE ChamberPool[p[k]] \o FlattenChamber(p, k + 1)

InitChamber ==
    \E p \in [1..MaxChamberStmts -> 1..Len(ChamberPool)] : StartState(FlattenChamber(p, 1))

NextChamber ==
    \/ ExecLet
    \/ ExecEphemeralBlock
    \/ ExecChamberBlock
    \/ ExecEntangle
    \/ ExecRelease
    \/ WorkExit

SpecChamber == InitChamber /\ [][NextChamber]_vars

(***************************************************************************)
(* CHOIR on its own: MAIN binds s and a or not, runs a CHOIR block of      *)
(* MaxBranches SUMMONs of the Works of ChoirWorks, and says a word.        *)
(***************************************************************************)
MaxBranches == 2
ChoirWorks == <<"A", "B", "F", "E", "R">>

RECURSIVE ChoirBody(_, _)
ChoirBody(p, k) ==
    IF k > Len(p) THEN <<>>
    ELSE S(<<Tok("SUMMON"), Tok("WORK"), Id(ChoirWorks[p[k]])>>) \o ChoirBody(p, k + 1)

ChoirProgram(setup, p) ==
    setup \o Head2(<<Tok("CHOIR")>>) \o ChoirBody(p, 1) \o S(<<Tok("ENDCHOIR")>>)
    \o S(<<Tok("SAY"), Tok("COLON"), Str("abc")>>)

InitChoir ==
    \E setup \in {<<>>, PSetup}, p \in [1..MaxBranches -> 1..Len(ChoirWorks)] :
        StartState(ChoirProgram(setup, p))

NextChoir ==
    \/ ExecLet
    \/ ExecSay
    \/ ExecThus
    \/ ExecSummonStmt
    \/ ExecEntangle
    \/ ExecRelease
    \/ ExecChoirBlock
    \/ ChoirRun
    \/ LedgerRace
    \/ ChoirJoin
    \/ WorkExit

SpecChoir == InitChoir /\ [][NextChoir]_vars

(***************************************************************************)
(* SUMMON on its own: MAIN binds a restricted name s and a plain name a,   *)
(* then calls one Work, as a statement (with or without a SEAL) or as the  *)
(* expression of a LET.                                                    *)
(***************************************************************************)
SummonTargets == {"F", "G", "T", "V"}
SummonArgs == {<<>>,
               <<Tok("WITH"), Tok("SIGIL"), Str("lit")>>,
               <<Tok("WITH"), Tok("SIGIL"), Id("a")>>,
               <<Tok("WITH"), Tok("SIGIL"), Id("s")>>,
               <<Tok("WITH"), Id("s")>>}
Seals == {<<>>, <<Tok("SEAL"), Str("key")>>, <<Tok("SEAL"), Str("bad")>>}

SummonSetup ==
    S(<<Tok("LET"), Id("INVISIBLE"), Id("s"), Tok("BE"), Str("sec")>>)
    \o S(<<Tok("LET"), Id("a"), Tok("BE"), Str("2")>>)

SummonProgram(t, a, k) ==
    SummonSetup
    \o S(<<Tok("SUMMON"), Tok("WORK"), Id(t)>> \o a \o k)
    \o S(<<Tok("SAY"), Tok("COLON"), Str("end")>>)

LetSummonProgram(t, a) ==
    SummonSetup
    \o S(<<Tok("LET"), Id("r"), Tok("BE"), Tok("SUMMON"), Tok("WORK"), Id(t)>> \o a)
    \o S(<<Tok("SAY"), Tok("COLON"), Id("r")>>)

InitSummon ==
    \/ \E t \in SummonTargets, a \in SummonArgs, k \in Seals : StartState(SummonProgram(t, a, k))
    \/ \E t \in SummonTargets, a \in SummonArgs : StartState(LetSummonProgram(t, a))

NextSummon ==
    \/ ExecLet
    \/ ExecSay
    \/ ExecThus
    \/ ExecSendBack
    \/ ExecSummonStmt
    \/ WorkExit

SpecSummon == InitSummon /\ [][NextSummon]_vars

(***************************************************************************)
(* WHILE on its own: MAIN binds n and m to 0 and runs one loop, its        *)
(* condition drawn from WhileConds and its body a sequence of at most      *)
(* MaxWhileStmts statements of WhileBodies.  The interpreter runs as long  *)
(* as MAIN has not returned.                                               *)
(***************************************************************************)
MaxWhileStmts == 2
WhileConds == <<
    <<Id("n"), Tok("LT"), Num("2")>>,
    <<Id("n"), Tok("LT"), Num("9")>>,
    <<Str("true")>>,
    <<Str("false")>>,
    <<Id("zz")>>
>>
WhileBodies == <<
    S(<<Tok("LET"), Id("n"), Tok("BE"), Id("n"), Tok("PLUS"), Num("1")>>),
    S(<<Tok("SAY"), Tok("COLON"), Id("n")>>),
    S(<<Tok("THUS"), Tok("WE"), Tok("ANSWER"), Id("n")>>),
    Head2(<<Tok("WHILE"), Id("m"), Tok("LT"), Id("n")>>)
      \o S(<<Tok("LET"), Id("m"), Tok("BE"), Id("m"), Tok("PLUS"), Num("1")>>)
      \o S(<<Tok("ENDWHILE")>>)
>>

RECURSIVE WhileBody(_, _)
WhileBody(p, k) == IF k > Len(p) THEN <<>> ELSE WhileBodies[p[k]] \o WhileBody(p, k + 1)

WhileProgram(c, p) ==
    S(<<Tok("LET"), Id("n"), Tok("BE"), Str("0")>>)
    \o S(<<Tok("LET"), Id("m"), Tok("BE"), Str("0")>>)
    \o Head2(<<Tok("WHILE")>> \o WhileConds[c])
    \o WhileBody(p, 1)
    \o S(<<Tok("ENDWHILE")>>)
    \o S(<<Tok("SAY"), Tok("COLON"), Str("end")>>)

InitWhile ==
    \E c \in 1..Len(WhileConds), l \in 0..MaxWhileStmts :
        \E p \in [1..l -> 1..Len(WhileBodies)] : StartState(WhileProgram(c, p))

NextWhile ==
    \/ ExecLet
    \/ ExecSay
    \/ ExecThus
    \/ ExecWhile
    \/ WorkExit

\* execWork runs on one goroutine that nothing suspends: as long as MAIN has not
\* returned the interpreter takes its next step.  (Stated on the steps taken, which
\* is WF_vars(NextWhile) here, a step being enabled until MAIN has returned.)
Progress == []<><<NextWhile>>_vars \/ <>[](stack = <<>>)

SpecWhile == InitWhile /\ [][NextWhile]_vars /\ Progress

(***************************************************************************)
(* MAIN activating the service: up to MaxAltarStmts statements of          *)
(* AltarPool, no request arriving.                                         *)
(***************************************************************************)
MaxAltarStmts == 3
Route(method, path) == <<Tok("ROUTE"), Tok(method), Str(path), Id("TO")>>
RouteWork(method, path, h) == S(Route(method, path) \o <<Tok("WORK"), Id(h)>>)
RouteSend(method, path, expr) == S(Route(method, path) \o <<Tok("SEND"), Tok("BACK")>> \o expr)
AltarAt(port) == Head2(<<Tok("ALTAR"), Tok("AT"), Tok("COLON"), Num(port)>>)
EndAltar == S(<<Tok("ENDALTAR")>>)
AltarPool == <<
    S(<<Tok("LET"), Id("a"), Tok("BE"), Str("1")>>),
    S(<<Tok("SAY"), Tok("COLON"), Str("after")>>),
    AltarAt("1") \o RouteWork("GET", "/a", "W") \o EndAltar,
    <<Tok("ALTAR"), Tok("AT"), Num("1"), Tok("NEWLINE")>>
        \o RouteSend("GET", "/a", <<Str("x")>>) \o RouteSend("GET", "/b", <<Id("a")>>) \o EndAltar,
    AltarAt("2") \o RouteSend("GET", "/c", <<Str("c")>>) \o EndAltar,
    AltarAt("1") \o RouteWork("POST", "/a", "W") \o EndAltar,
    AltarAt("1") \o RouteSend("PUT", "/d", <<Str("d")>>) \o RouteSend("PUT", "/d", <<Str("e")>>)
        \o EndAltar,
    AltarAt("1") \o EndAltar,
    <<Tok("ALTAR"), Tok("AT"), Tok("COLON"), Num("1"), Id("SEAL"), Str("k"), Tok("COLON"),
      Tok("NEWLINE")>> \o RouteSend("GET", "/s", <<Str("s")>>) \o EndAltar,
    AltarAt("1") \o RouteSend("GET", "/t", <<Str("t")>>) \o S(<<Id("SEAL"), Str("k")>>)
        \o EndAltar,
    AltarAt("1") \o RouteSend("DELETE", "/e", <<Str("e")>>),
    S(<<Tok("ALTAR"), Str("h:1")>>)
>>

RECURSIVE AltarProgram(_, _)
AltarProgram(p, k) == IF k > Len(p) THEN <<>> ELSE AltarPool[p[k]] \o AltarProgram(p, k + 1)

InitAltar ==
    \E l \in 1..MaxAltarStmts :
        \E p \in [1..l -> 1..Len(AltarPool)] : StartState(AltarProgram(p, 1))

NextAltar ==
    \/ ExecLet
    \/ ExecSay
    \/ ExecAltarBlock
    \/ AltarLoop
    \/ WorkExit

SpecAltar == InitAltar /\ [][NextAltar]_vars

(***************************************************************************)
(* MAIN declaring routes and going on while up to MaxRequests requests are *)
(* served, each on its goroutine.                                          *)
(***************************************************************************)
MaxServeStmts == 1
ServePool == <<
    S(<<Tok("LET"), Id("a"), Tok("BE"), Str("2")>>),
    S(<<Tok("LET"), Id("c"), Tok("BE"), Str("3")>>),
    S(<<Tok("SAY"), Tok("COLON"), Id("a")>>)
>>

RECURSIVE ServeTail(_, _)
ServeTail(p, k) == IF k > Len(p) THEN <<>> ELSE ServePool[p[k]] \o ServeTail(p, k + 1)

ServeProgram(p) ==
    S(<<Tok("LET"), Id("INVISIBLE"), Id("s"), Tok("BE"), Str("sec")>>)
    \o S(<<Tok("LET"), Id("a"), Tok("BE"), Str("1")>>)
    \o AltarAt("1")
    \o RouteWork("GET", "/a", "W")
    \o RouteSend("GET", "/b", <<Id("a")>>)
    \o EndAltar
    \o ServeTail(p, 1)
    \o S(<<Tok("SAY"), Tok("COLON"), Str("end")>>)

InitServe ==
    \E l \in 1..MaxServeStmts :
        \E p \in [1..l -> 1..Len(ServePool)] : StartState(ServeProgram(p))

NextServe ==
    \/ ExecLet
    \/ ExecSay
    \/ ExecThus
    \/ ExecAltarBlock
    \/ AltarLoop
    \/ Arrive
    \/ Serve
    \/ Switch
    \/ TableRace
    \/ WorkExit

SpecServe == InitServe /\ [][NextServe]_vars

(***************************************************************************)
(* CHOIR whose branches SUMMON Works that activate the service: the        *)
(* goroutines of the branches bind the server and declare routes against   *)
(* each other.                                                             *)
(***************************************************************************)
MaxAltarBranches == 2
AltarWorks == <<"K1", "K2", "K3", "K4">>

RECURSIVE AltarChoirBody(_, _)
AltarChoirBody(p, k) ==
    IF k > Len(p) THEN <<>>
    ELSE S(<<Tok("SUMMON"), Tok("WORK"), Id(AltarWorks[p[k]])>>) \o AltarChoirBody(p, k + 1)

AltarChoirProgram(p) ==
    Head2(<<Tok("CHOIR")>>) \o AltarChoirBody(p, 1) \o S(<<Tok("ENDCHOIR")>>)
    \o S(<<Tok("SAY"), Tok("COLON"), Str("abc")>>)

InitAltarChoir ==
    \E p \in [1..MaxAltarBranches -> 1..Len(AltarWorks)] : StartState(AltarChoirProgram(p))

NextAltarChoir ==
    \/ ExecSay
    \/ ExecSummonStmt
    \/ ExecAltarBlock
    \/ AltarLoop
    \/ ExecChoirBlock
    \/ ChoirRun
    \/ ChoirJoin
    \/ WorkExit

SpecAltarChoir == InitAltarChoir /\ [][NextAltarChoir]_vars

(***************************************************************************)
(* OMEN regions with what goes wrong in them: bodies that fail, nested     *)
(* regions, RAISE OMEN, IF OMEN and the statement FALLS_TO_RUIN.           *)
(***************************************************************************)
MaxOmenStmts == 3
Ruin == Head2(<<Id("FALLS_TO_RUIN")>>)
EndOmen == S(<<Tok("ENDOMEN")>>)
OmenPool == <<
    S(<<Tok("LET"), Id("a"), Tok("BE"), Str("1")>>),
    S(<<Tok("RAISE"), Tok("OMEN"), Str("x")>>),
    Head2(<<Tok("IF"), Tok("OMEN"), Str("x"), Id("IS"), Id("PRESENT"), Id("THEN")>>)
        \o S(<<Tok("SAY"), Tok("COLON"), Str("px")>>)
        \o Head2(<<Tok("ELSE")>>)
        \o S(<<Tok("SAY"), Tok("COLON"), Str("nx")>>)
        \o S(<<Tok("END")>>),
    S(<<Id("FALLS_TO_RUIN"), Tok("COLON"), Str("ruin")>>),
    Head2(<<Tok("OMEN"), Str("x")>>)
        \o S(<<Tok("LET"), Id("b"), Tok("BE"), Id("zz")>>)
        \o Ruin \o S(<<Tok("SAY"), Tok("COLON"), Str("rec")>>) \o EndOmen,
    Head2(<<Tok("OMEN"), Str("m")>>)
        \o S(<<Tok("SAY"), Tok("COLON"), Str("body")>>)
        \o S(<<Tok("LET"), Id("a")>>)
        \o Ruin \o S(<<Tok("SAY"), Tok("COLON"), Str("rec")>>) \o EndOmen,
    Head2(<<Tok("OMEN"), Str("x")>>)
        \o S(<<Tok("RAISE"), Tok("OMEN"), Str("y")>>)
        \o Head2(<<Tok("OMEN"), Str("y")>>)
        \o S(<<Tok("SAY"), Tok("COLON"), Str("in")>>)
        \o Ruin \o S(<<Tok("SAY"), Tok("COLON"), Str("inrec")>>) \o EndOmen
        \o Head2(<<Tok("IF"), Tok("OMEN"), Str("y")>>)
        \o S(<<Tok("SAY"), Tok("COLON"), Str("py")>>)
        \o S(<<Tok("END")>>)
        \o S(<<Tok("SAY"), Tok("COLON"), Str("tail")>>)
        \o Ruin \o S(<<Tok("SAY"), Tok("COLON"), Str("outrec")>>) \o EndOmen
>>

RECURSIVE OmenProgram(_, _)
OmenProgram(p, k) == IF k > Len(p) THEN <<>> ELSE OmenPool[p[k]] \o OmenProgram(p, k + 1)

InitOmen ==
    \E l \in 1..MaxOmenStmts :
        \E p \in [1..l -> 1..Len(OmenPool)] : StartState(OmenProgram(p, 1))

NextOmen ==
    \/ ExecLet
    \/ ExecSay
    \/ ExecRaiseOmen
    \/ ExecOmenBlock
    \/ ExecIfOmen
    \/ ExecFallsToRuin
    \/ MoveOn
    \/ WorkExit

SpecOmen == InitOmen /\ [][NextOmen]_vars

(***************************************************************************)
(* Requests with a query: MAIN binds the content type of the replies or    *)
(* not, declares GET /hello as "Hello " + Q_NAME and GET /d.json as        *)
(* Q_LANG, and goes on while the requests of QueryPool arrive.             *)
(***************************************************************************)
QuerySetups == {<<>>, S(<<Tok("LET"), Id("response_content_type"), Tok("BE"), Str("text/html")>>)}
QueryPool ==
    {[method |-> "GET", path |-> "/hello", raw |-> "name=Ada"],
     [method |-> "GET", path |-> "/hello", raw |-> "Name=Bob&lang=en"],
     [method |-> "GET", path |-> "/hello", raw |-> "name=Ada&name=Eve"],
     [method |-> "GET", path |-> "/hello", raw |-> ""],
     [method |-> "POST", path |-> "/hello", raw |-> "name=Ada"],
     [method |-> "GET", path |-> "/d.json", raw |-> "lang=en"]}

QueryProgram(setup) ==
    setup
    \o AltarAt("1")
    \o RouteSend("GET", "/hello", <<Str("Hello "), Tok("PLUS"), Id("Q_NAME")>>)
    \o RouteSend("GET", "/d.json", <<Id("Q_LANG")>>)
    \o EndAltar
    \o S(<<Tok("SAY"), Tok("COLON"), Str("end")>>)

InitQuery == \E setup \in QuerySetups : StartState(QueryProgram(setup))

ArriveQuery == ArriveFrom(QueryPool)

NextQuery ==
    \/ ExecLet
    \/ ExecSay
    \/ ExecAltarBlock
    \/ AltarLoop
    \/ ArriveQuery
    \/ Serve
    \/ WorkExit

SpecQuery == InitQuery /\ [][NextQuery]_vars

(***************************************************************************)
(* Addition on its own: MAIN binds b, binds r to the sum of two operands   *)
(* and says r.                                                             *)
(***************************************************************************)
AddValues == {"4", "a"}
AddOperands == {Str("3"), Str("4"), Str("a"), Str(" 5"), Str(""), Num("3"), Id("b")}

AddProgram(v, l, r) ==
    S(<<Tok("LET"), Id("b"), Tok("BE"), Str(v)>>)
    \o S(<<Tok("LET"), Id("r"), Tok("BE"), l, Tok("PLUS"), r>>)
    \o S(<<Tok("SAY"), Tok("COLON"), Id("r")>>)

InitAdd == \E v \in AddValues, l \in AddOperands, r \in AddOperands : StartState(AddProgram(v, l, r))

SpecAdd == InitAdd /\ [][NextExpr]_vars

(***************************************************************************)
(* Scopes on their own: MAIN is made of passages that bind a, bind s as    *)
(* INVISIBLE, bind s again, say them, and open blocks that bind            *)
(* EPHEMERAL names.                                                        *)
(***************************************************************************)
MaxScopeStmts == 3
ScopePool == <<
    S(<<Tok("LET"), Id("a"), Tok("BE"), Str("1")>>),
    S(<<Tok("LET"), Id("INVISIBLE"), Id("s"), Tok("BE"), Str("sec")>>),
    S(<<Tok("LET"), Id("s"), Tok("BE"), Str("pub")>>),
    S(<<Tok("SAY"), Tok("COLON"), Id("s")>>),
    S(<<Tok("SAY"), Tok("COLON"), Id("a")>>),
    Head2(<<Tok("IF"), Str("1"), Id("EQUALS"), Str("1"), Id("THEN")>>)
        \o S(<<Tok("LET"), Tok("EPHEMERAL"), Id("a"), Tok("BE"), Str("2")>>)
        \o S(<<Tok("END")>>),
    Head2(<<Tok("IF"), Str("1"), Id("EQUALS"), Str("1"), Id("THEN")>>)
        \o S(<<Tok("LET"), Tok("EPHEMERAL"), Id("e"), Tok("BE"), Str("t")>>)
        \o S(<<Tok("LET"), Id("b"), Tok("BE"), Str("4")>>)
        \o S(<<Tok("END")>>),
    Head2(<<Tok("EPHEMERAL")>>)
        \o S(<<Tok("LET"), Id("b"), Tok("BE"), Str("5")>>)
        \o S(<<Tok("END"), Tok("EPHEMERAL")>>)
>>

RECURSIVE ScopeProgram(_, _)
ScopeProgram(p, k) == IF k > Len(p) THEN <<>> ELSE ScopePool[p[k]] \o ScopeProgram(p, k + 1)

InitScope ==
    \E l \in 1..MaxScopeStmts :
        \E p \in [1..l -> 1..Len(ScopePool)] : StartState(ScopeProgram(p, 1))

NextScope ==
    \/ ExecLet
    \/ ExecSay
    \/ ExecIf
    \/ ExecEphemeralBlock
    \/ WorkExit

SpecScope == InitScope /\ [][NextScope]_vars

(***************************************************************************)
(* Properties.                                                             *)
(***************************************************************************)
ExitOf(kinds) == ev.k = "exit" /\ ev.ck \in kinds

\* C1: when the body of a region named n has raised n, the table is back at the
\* snapshot of the entry of the region when the body has returned, and the recovery
\* body, if there is one, is run.
C1_RollbackThenRecovery ==
    (ExitOf({"omenBody"}) /\ ev.name \in ev.sig)
        => (ev.penv = ev.snapshot /\ ev.recovery = ev.ruin)

\* C2: when a frame has returned, on whatever path, no name it bound as EPHEMERAL
\* is left in its table, nor the mark of invisibility of such a name.
C2_EphemeralScrubbed ==
    ev.k = "exit" =>
        \A n \in ev.eph :
            /\ n \notin DOMAIN ev.env
            /\ sicInvisibleMetaPrefix \o n \notin DOMAIN ev.env
            /\ ev.ck \in {"block", "omenBody"} => n \notin DOMAIN ev.penv

C2_Witness == ev.k = "exit" /\ ev.how = "err" /\ ev.eph # {}

\* the expression names a sigil the table marks invisible
ReadsInvisible(expr, sigils) ==
    \E k \in 1..Len(expr) : expr[k].t = "IDENT" /\ isInvisibleSigil(sigils, expr[k].lx)

C4_SayRedacts ==
    (ev.k = "say" /\ ev.tainted)
        => (ev.line = "[SIC SAY] [REDACTED]" /\ out[Len(out)] = "[SIC SAY] [REDACTED]")

C4_Witness == ev.k = "say" /\ ev.tainted /\ ev.msg = "sec!"

\* C5: the value answered by THUS WE ANSWER or SEND BACK, printed or captured, is the
\* placeholder whenever the expression answered is tainted.
C5_AnswerRedacts == (ev.k = "answer" /\ ev.tainted) => ev.val = sicRedacted

\* the first parameter of the target of the last SUMMON, if it has one
ParamOf(target) == IF Len(works[target].SigilParams) > 0 THEN {works[target].SigilParams[1]} ELSE {}

\* C6: the table a SUMMON builds for the callee holds the first parameter, the mark
\* of invisibility of the parameter when the argument names an invisible sigil, and
\* otherwise only entries of the caller that are neither invisible nor marks.
C6_ChildVisibleOnly ==
    ev.k = "summon" =>
        \A key \in DOMAIN ev.child :
            \/ key \in ParamOf(ev.target)
            \/ /\ key \in {sicInvisibleMetaPrefix \o p : p \in ParamOf(ev.target)}
               /\ ev.argFromSigil # ""
               /\ isInvisibleSigil(ev.caller, ev.argFromSigil)
            \/ /\ key \in DOMAIN ev.caller
               /\ ~IsMetaKey(key)
               /\ ~isInvisibleSigil(ev.caller, key)
               /\ ev.child[key] = ev.caller[key]

C6_Witness ==
    /\ ev.k = "summon"
    /\ ev.argFromSigil = "a"
    /\ isInvisibleSigil(ev.caller, "s")
    /\ "s" \notin DOMAIN ev.child

\* C7: when a SUMMON has returned, the table of the caller is what it was when the
\* callee was called.
C7_CallerUnchanged == ExitOf({"summonStmt", "summonExpr"}) => ev.penv = ev.snapshot

C7_Witness ==
    /\ ExitOf({"summonStmt", "summonExpr"})
    /\ DOMAIN ev.lets # {}
    /\ DOMAIN ev.snapshot # {}

StatementEvents == {"say", "let", "answer", "raise", "summon", "enter", "skip", "ledger", "error"}

\* C8: no statement is executed in a body after a RAISE OMEN of that body (or of a
\* block of it, not caught within it) has been executed.
C8_RaiseEndsBody == ev.k \in StatementEvents => ev.sig = {}

\* C9: the body of a region named m that has raised n # m returns the failure and
\* the recovery body of m is not run; MAIN returning with a failure no region has
\* caught returns an error.
C9_Propagates ==
    /\ (ExitOf({"omenBody"}) /\ ev.sig \ {ev.name} # {} /\ ev.name \notin ev.sig)
          => (~ev.recovery /\ ev.result = "err")
    /\ (ExitOf({"main"}) /\ ev.sig # {}) => ev.how = "err"

\* the values last bound in the body that are still bound after the region
Remain(names) == \A n \in names : n \in DOMAIN ev.penv /\ ev.penv[n] = ev.lets[n]

\* C10 as stated: the body of a region having returned without a RAISE OMEN, the
\* recovery body is not run and every binding made by the body is still there.
C10_AllBindingsRemain ==
    (ExitOf({"omenBody"}) /\ ev.sig = {} /\ ev.how # "err")
        => (~ev.recovery /\ Remain(DOMAIN ev.lets))

\* C10, amended: the body of a region having returned without a RAISE OMEN, the
\* recovery body is not run and every binding made by the body, those of EPHEMERAL
\* names apart, is still there.
C10_BindingsRemain ==
    (ExitOf({"omenBody"}) /\ ev.sig = {} /\ ev.how # "err")
        => (~ev.recovery /\ ev.result = "none" /\ Remain(DOMAIN ev.lets \ ev.eph))

C10_Witness ==
    /\ ExitOf({"omenBody"})
    /\ ev.sig = {}
    /\ ev.how = "ok"
    /\ "a" \in DOMAIN ev.lets
    /\ ev.eph # {}

\* C11: once a statement of a Work, or of a block of it, has answered (THUS WE
\* ANSWER, SEND BACK), no statement of that Work is executed any more, and the
\* value a captured Work returns is the first it answered.
C11_ReturnEndsUnit ==
    /\ ev.k \in StatementEvents => ev.ans = <<>>
    /\ (ExitOf(UnitKinds) /\ ev.ans # <<>>)
          => (ev.how = "ans" /\ (ev.capture => ev.val = ev.ans[1]))

\* the SUMMON statements MAIN declares
Declared == Cardinality({k \in 1..Len(main) : main[k].t = "SUMMON"})

\* C13: the frame that executes a CHOIR block goes on, or returns the error of the
\* block, only when a goroutine has been started for every SUMMON statement of the
\* block and every one of them has returned, whether others failed or not.
C13_AllBranchesAwaited ==
    ev.k = "join" =>
        /\ Len(ev.done) = Declared
        /\ \A b \in DOMAIN ev.done : ev.done[b]
        /\ \A b \in DOMAIN ev.done : ev.br[b].st # "new"

C13_Witness ==
    /\ ev.k = "join"
    /\ ev.errs[1].st = "err"
    /\ ev.errs[2].st # "err"
    /\ ev.fin = <<1, 2>>
    /\ out[Len(out)] = "[SIC SAY] A"

\* C14: the error a CHOIR block returns is the error of the failed SUMMON that is
\* first in the order of the source, in whatever order they returned, and the block
\* returns no error when none failed.
C14_FirstDeclaredError ==
    ev.k = "join" =>
        IF \A b \in DOMAIN ev.errs : ev.errs[b].st # "err" THEN ret.st = "none"
        ELSE /\ ret.st = "err"
             /\ \E b \in DOMAIN ev.errs :
                   /\ ev.errs[b].st = "err"
                   /\ \A c \in DOMAIN ev.errs : c < b => ev.errs[c].st # "err"
                   /\ ret.val = ev.errs[b].val

C14_Witness ==
    /\ ev.k = "join"
    /\ ev.errs[1].st = "err"
    /\ ev.errs[2].st = "err"
    /\ ev.errs[1].val # ev.errs[2].val
    /\ ev.fin = <<2, 1>>

\* the entries of a table that a callee inherits
Inherited(sigils) == {k \in DOMAIN sigils : ~IsMetaKey(k) /\ ~isInvisibleSigil(sigils, k)}

\* C15: the table the Work of a SUMMON of a CHOIR block starts on is made of the
\* entries, neither invisible nor marks, that the table of the frame executing the
\* block had when it reached the block, and of the parameter; and that table is, when
\* the block has returned, what it was then.
C15_BranchesIsolated ==
    /\ (choir.on /\ ev.k = "summon" /\ Len(stack) = 2) =>
          /\ \A key \in DOMAIN ev.child \ ParamOf(ev.target) :
                key \in Inherited(choir.entry) /\ ev.child[key] = choir.entry[key]
          /\ Inherited(choir.entry) \subseteq DOMAIN ev.child
    /\ ev.k = "join" => Sig = ev.entry

C15_Witness ==
    /\ choir.on
    /\ ev.k = "summon"
    /\ ev.target = "B"
    /\ ev.child = [a |-> "1"]
    /\ \E b \in DOMAIN choir.br :
          /\ choir.br[b].st = "run"
          /\ Len(choir.br[b].envs) = 2
          /\ "a" \in DOMAIN choir.br[b].envs[2]
          /\ choir.br[b].envs[2]["a"] = "9"

(* The SUMMONs of a CHOIR block run one after another, in the order of the source,
   each to its end before the next starts: the error and the ledger each leaves. *)
RECURSIVE serialWork(_, _, _, _), serialStmt(_, _, _, _)
serialFailed(r, cores) == [failed |-> TRUE, msg |-> r.msg, cores |-> cores]
serialSaid(tokens, r, sigils, cores) ==
    IF r.st = "err" THEN serialFailed(r, cores) ELSE serialWork(tokens, r.next, sigils, cores)
serialBound(tokens, r, cores) ==
    IF r.st = "err" THEN serialFailed(r, cores) ELSE serialWork(tokens, r.next, r.sigils, cores)
serialAnswered(r, cores) ==
    IF r.st = "err" THEN serialFailed(r, cores) ELSE [failed |-> FALSE, msg |-> "", cores |-> cores]
serialLedger(tokens, r, sigils, cores) ==
    IF r.st = "err" THEN serialFailed(r, cores) ELSE serialWork(tokens, r.next, sigils, r.cores)
serialStmt(tokens, i, sigils, cores) ==
    CASE i > Len(tokens) -> [failed |-> FALSE, msg |-> "", cores |-> cores]
      [] TypeAt(tokens, i) = "SAY" -> serialSaid(tokens, execSay(tokens, i, sigils, <<>>), sigils, cores)
      [] TypeAt(tokens, i) = "LET" -> serialBound(tokens, execLet(tokens, i, sigils, <<>>), cores)
      [] TypeAt(tokens, i) = "THUS" -> serialAnswered(execThus(tokens, i, sigils, <<>>), cores)
      [] TypeAt(tokens, i) = "ENTANGLE" ->
            serialLedger(tokens, execEntangle(tokens, i, cores), sigils, cores)
      [] TypeAt(tokens, i) = "RELEASE" ->
            serialLedger(tokens, execRelease(tokens, i, cores), sigils, cores)
      [] OTHER -> serialWork(tokens, i + 1, sigils, cores)
serialWork(tokens, i, sigils, cores) == serialStmt(tokens, skipNewlines(tokens, i), sigils, cores)

serialSummon(h, sigils, cores) ==
    IF h.st = "err" THEN serialFailed(h, cores)
    ELSE serialWork(cleanWorkBody(works[h.target].Body), 1, summonChild(sigils, h), cores)

RECURSIVE serialChoir(_, _, _, _, _)
serialAfter(stmts, b, sigils, first, r) ==
    serialChoir(stmts, b + 1, sigils, r.cores,
                IF first.failed THEN first ELSE [failed |-> r.failed, msg |-> r.msg])
serialChoir(stmts, b, sigils, cores, first) ==
    IF b > Len(stmts) THEN [failed |-> first.failed, msg |-> first.msg, cores |-> cores]
    ELSE serialAfter(stmts, b, sigils, first,
                     serialSummon(summonHeader(stmts[b], 1, sigils), sigils, cores))

\* the block has returned what ref is
SameOutcome(ref) ==
    /\ (ret.st = "err") = ref.failed
    /\ ref.failed => ret.val = ref.msg
    /\ entangledCores = ref.cores

\* C16: a CHOIR block returns, and leaves the ledger, as its SUMMONs run one after
\* another in the order of the source do, however its goroutines are interleaved;
\* and no interleaving ends the process.
C16_InterleavingUnobservable ==
    /\ ret.st # "fatal"
    /\ ev.k = "join" =>
          SameOutcome(serialChoir(ev.stmts, 1, ev.entry, ev.cores0, [failed |-> FALSE, msg |-> ""]))

\* the SUMMONs of the block whose Work reads or writes the ledger
OnLedger == {k \in 1..Len(main) : main[k].t = "IDENT" /\ main[k].lx \in {"E", "R"}}

\* C16, for the blocks no Work of which uses the ledger
C16_WithoutLedger == OnLedger = {} => C16_InterleavingUnobservable

\* the frames in the loop of a WEAVE block

WeaveFrames == {j \in 1..Len(stack) : stack[j].weave # 0}
WeaveTargetsOf(f) == weaveTargets(FrameToks(f), f.weave)

\* C12: the SUMMONs of a WEAVE block are started one at a time in the order of the
\* source, each when those before it have returned without error; the error of one
\* of them is the error of the block, and none after it is started.
C12_WeaveInOrder ==
    /\ \A j \in WeaveFrames :
          /\ Len(stack[j].wlog) <= Len(WeaveTargetsOf(stack[j]))
          /\ \A k \in 1..Len(stack[j].wlog) :
                /\ stack[j].wlog[k].target = WeaveTargetsOf(stack[j])[k]
                /\ k < Len(stack[j].wlog) => stack[j].wlog[k].res = "ok"
                /\ (k = Len(stack[j].wlog) /\ j = Len(stack))
                      => (stack[j].wlog[k].res = "ok" \/ ret.st = "err")
    /\ (ExitOf({"weaveSummon"}) /\ ev.how = "err")
          => (ret.st = "err" /\ ret.val = ev.val /\ Top.weave # 0)

C12_Witness ==
    /\ ExitOf({"weaveSummon"})
    /\ ev.how = "err"
    /\ Len(Top.wlog) = 2
    /\ Top.wlog[1] = [target |-> "A", res |-> "ok"]
    /\ WeaveTargetsOf(Top) = <<"A", "B", "C">>
    /\ out[Len(out)] = "[SIC SAY] B"

leakError == "EPHEMERAL: entangle leak in CHAMBER"

\* C17: a CHAMBER whose body has returned without error returns the leak error when
\* the ledger is not empty, and returns without error when it is empty.
C17_LeakIffLedger ==
    (ExitOf({"chamber"}) /\ ev.how # "err")
        => IF ev.cores # {} THEN ret.st = "err" /\ ret.val = leakError
           ELSE ret.st = "none"

C17_Witness == ExitOf({"chamber"}) /\ ev.how # "err" /\ ev.cores = {"k"} /\ ret.val = leakError

C17_CleanWitness == ExitOf({"chamber"}) /\ ev.cores = {} /\ ret.st = "none" /\ ev.lets # EmptyTable

\* the name an ENTANGLE or RELEASE at the current token is about
LedgerName ==
    IF Toks[Cur].t = "ENTANGLE" /\ TypeAt(Toks, Cur + 1) = "CORE" THEN Toks[Cur + 2].lx
    ELSE Toks[Cur + 1].lx
Rejected ==
    \/ At("ENTANGLE") /\ LedgerName \in entangledCores
    \/ At("RELEASE") /\ LedgerName \notin entangledCores

\* C18: ENTANGLE of a name the ledger holds and RELEASE of a name it does not hold
\* return an error and leave the ledger as it was.
C18_RejectedLeavesLedger ==
    [][Rejected => (ev'.k = "error" /\ ret'.st = "err" /\ entangledCores' = entangledCores)]_vars

C18_Witness == ev.k = "error" /\ ev.t = "ENTANGLE" /\ entangledCores = {"k"}

C18_ReleaseWitness == ev.k = "error" /\ ev.t = "RELEASE" /\ entangledCores = {}

\* C19: when a CHAMBER has returned, on whatever path, the ledger is the one of its
\* entry; its body starts on an empty ledger.
C19_LedgerRestored ==
    /\ ExitOf({"chamber"}) => entangledCores = ev.old
    /\ (ev.k = "enter" /\ ev.t = "CHAMBER") => entangledCores = {}

C19_Witness ==
    /\ ExitOf({"chamber"})
    /\ ev.old = {"k"}
    /\ ev.cores = {"k"}
    /\ Len(stack) = 2

\* C20: when a CHAMBER has returned, on whatever path, the table of the enclosing
\* frame is what it was when the CHAMBER was entered.
C20_BodyBindingsDropped == ExitOf({"chamber"}) => ev.penv = ev.snapshot

C20_Witness ==
    /\ ExitOf({"chamber"})
    /\ "a" \in DOMAIN ev.lets
    /\ "a" \in DOMAIN ev.snapshot
    /\ ev.lets["a"] # ev.snapshot["a"]
    /\ ev.eph # {}

C20_FailWitness == ExitOf({"chamber"}) /\ ev.how = "err" /\ ev.lets # EmptyTable

\* the seal a SUMMON statement supplies: the lexeme after its SEAL token, if any
SealOf(tokens, i) ==
    LET at == {k \in i..(stmtEnd(tokens, i) - 1) : tokens[k].t = "SEAL"}
    IN  IF at = {} THEN "" ELSE tokens[(CHOOSE k \in at : \A m \in at : k <= m) + 1].lx

\* the seal supplied by the statement of frame j - 1 that called frame j
SealSupplied(j) ==
    SealOf(FrameToks(stack[j - 1]), skipNewlines(FrameToks(stack[j - 1]), stack[j - 1].i))

\* C21: no body of a SEALED Work is being run by a SUMMON that did not supply the
\* seal of the Work; such a SUMMON returns an error.
C21_SealedRefused ==
    \A j \in 2..Len(stack) :
        (stack[j].own /\ stack[j].w # "MAIN" /\ works[stack[j].w].Sealed)
            => SealSupplied(j) = works[stack[j].w].SealToken

\* the header of the SUMMON that called the running Work, read in the table the
\* caller had then
CallHeader ==
    LET toks == FrameToks(Parent)
        from == skipNewlines(toks, Parent.i)
        at == CHOOSE k \in from..Len(toks) :
                 toks[k].t = "SUMMON" /\ \A m \in from..(k - 1) : toks[m].t # "SUMMON"
    IN  summonHeader(toks, at, Top.cont.snapshot)

\* C22: the first parameter of the callee is bound to the value of the argument; it
\* is marked invisible in the table of the callee exactly when the argument is the
\* name of a sigil invisible in the caller, and SAY of the parameter in the callee
\* is then tainted, and not otherwise.
C22_ParamInheritsMark ==
    /\ (ev.k = "summon" /\ ParamOf(ev.target) # {}) =>
          \A p \in ParamOf(ev.target) :
             /\ p \in DOMAIN ev.child
             /\ ev.child[p] = ev.argVal
             /\ ev.argFromSigil # "" => ev.argVal = getSigil(ev.caller, ev.argFromSigil).v
             /\ isInvisibleSigil(ev.child, p)
                   <=> (ev.argFromSigil # "" /\ isInvisibleSigil(ev.caller, ev.argFromSigil))
    /\ (ev.k = "say" /\ Top.w = "T" /\ ev.expr = <<Id("p")>>) =>
          (ev.tainted <=> (CallHeader.argFromSigil # ""
                           /\ isInvisibleSigil(Top.cont.snapshot, CallHeader.argFromSigil)))

C22_Witness ==
    /\ ev.k = "say"
    /\ Top.w = "T"
    /\ ev.expr = <<Id("p")>>
    /\ ev.tainted
    /\ ev.msg = "sec"

C22_PlainWitness ==
    /\ ev.k = "say"
    /\ Top.w = "T"
    /\ ev.expr = <<Id("p")>>
    /\ ~ev.tainted
    /\ ev.msg = "2"

exceeded == "WHILE: exceeded " \o NatStr(maxWhileIterations) \o " iterations"

\* the condition of the WHILE the frame f is on, evaluated in its table
WhileCond(f) ==
    LET toks == FrameToks(f)
        at == skipNewlines(toks, f.i)
        from == skipNewlines(toks, at + 1)
    IN  evalBoolExpr(SubSeq(toks, from, whileCondEnd(toks, from) - 1), envs[f.env], <<>>)

\* the statement loop of the running frame has a case for the token it is on
HasStep ==
    \/ ret.st # "none"
    \/ Cur > Len(Toks)
    \/ Toks[Cur].t \in {"LET", "SAY", "THUS", "WHILE"}

\* C30: every run ends.  The body of a WHILE is entered only when the condition,
\* evaluated then, is true, and at most maxWhileIterations times; the loop ends
\* without error only when the condition, evaluated then, is false; and when the
\* condition is still true after maxWhileIterations turns the loop returns the
\* error of the cap.
C30_WhileTerminates ==
    /\ <>(stack = <<>>)
    /\ [](stack # <<>> => HasStep)
    /\ [](\A j \in 1..Len(stack) : stack[j].iterations <= maxWhileIterations)
    /\ []((ev.k = "enter" /\ ev.t = "WHILE") =>
             (WhileCond(Parent).st = "ok" /\ WhileCond(Parent).b))
    /\ [][(At("WHILE") /\ Top.iterations = maxWhileIterations)
            => (ret'.st = "err" /\ ret'.val = exceeded)]_vars
    /\ [][(ev'.k = "loopEnd" /\ ev' # ev) => (WhileCond(Top).st = "ok" /\ ~WhileCond(Top).b)]_vars

C30_Witness ==
    /\ ev.k = "error"
    /\ ev.t = "WHILE"
    /\ ret.val = exceeded
    /\ Top.iterations = maxWhileIterations
    /\ Len(out) = maxWhileIterations

C30_EndWitness ==
    /\ ev.k = "loopEnd"
    /\ ev.iterations = 2
    /\ Sig["n"] = "2"

\* the address of the ALTAR statement the running frame is at
AltarAddrHere == altarAddr(Toks, Cur).addr
ActivatingAltar == At("ALTAR") /\ altarAddr(Toks, Cur).st = "ok"

\* C23: the first ALTAR AT addr makes the one listener of the process, bound to addr;
\* a later ALTAR at the same address takes that listener as it is; a later ALTAR at
\* another address fails with an error, the frame does not enter the loop of the
\* routes, and the server and its routes are as they were.
C23_OneListener ==
    /\ [](Len(globalAltar.listeners) <= 1)
    /\ [][ActivatingAltar =>
            CASE globalAltar.nil ->
                    /\ globalAltar' = [NilAltar EXCEPT !.nil = FALSE, !.addr = AltarAddrHere,
                                                      !.started = TRUE,
                                                      !.listeners = <<AltarAddrHere>>]
                    /\ ev'.k = "bind" /\ ev'.launch
              [] globalAltar.addr = AltarAddrHere ->
                    /\ globalAltar' = globalAltar
                    /\ ev'.k = "bind" /\ ~ev'.launch
                    /\ stack'[Len(stack)].altar = 1
              [] OTHER ->
                    /\ globalAltar' = globalAltar
                    /\ ret'.st = "err"
                    /\ ret'.val = "ALTAR: server already bound to " \o globalAltar.addr
                                      \o ", cannot bind to " \o AltarAddrHere
                    /\ stack' = stack]_vars

\* an ALTAR at another address has been refused, the server having routes
C23_Witness ==
    /\ ev.k = "error" /\ ev.t = "ALTAR" /\ "before" \in DOMAIN ev
    /\ ~ev.before.nil /\ ev.before.mux # <<>>
    /\ ev.addr # ev.before.addr
    /\ globalAltar = ev.before

\* an ALTAR at the address of the server has taken the server there is
C23_ReuseWitness ==
    /\ ev.k = "bind" /\ ~ev.before.nil /\ ev.before.mux # <<>>
    /\ ev.addr = ev.before.addr

\* the ROUTE statement the frame is at in the loop of an ALTAR block
RouteHere == altarLoop(Toks, Cur)
DeclaringRoute == InAltar /\ Cur <= Len(Toks) /\ Toks[Cur].t = "ROUTE" /\ RouteHere.st = "ok"

\* C24: a ROUTE whose method and path are registered, by this ALTAR block or by an
\* earlier one, fails with the duplicate-route error and the server is as it was; the
\* handlers the mux holds are never replaced nor removed.
C24_DuplicateRoute ==
    /\ [][(DeclaringRoute /\ routeKey(RouteHere.method, RouteHere.path) \in globalAltar.registered)
            => /\ ret'.st = "err"
               /\ ret'.val = "ALTAR: duplicate route " \o routeKey(RouteHere.method, RouteHere.path)
               /\ globalAltar' = globalAltar]_vars
    /\ [][\A k \in 1..Len(globalAltar.mux) :
              Len(globalAltar'.mux) >= k /\ globalAltar'.mux[k] = globalAltar.mux[k]]_vars

\* a route an earlier ALTAR block registered has been declared again and refused
C24_Witness ==
    /\ ev.k = "error" /\ ev.t = "ROUTE"
    /\ ev.key = "GET /a" /\ ev.key \in ev.before.registered
    /\ \E k \in 1..Len(globalAltar.mux) :
          globalAltar.mux[k].pattern = "/a" /\ globalAltar.mux[k].m = "GET"

\* the same, the two declarations being in one ALTAR block
C24_SameGroupWitness ==
    /\ ev.k = "error" /\ ev.t = "ROUTE" /\ ev.key = "PUT /d"
    /\ \E k \in 1..Len(globalAltar.mux) :
          globalAltar.mux[k].pattern = "/d" /\ globalAltar.mux[k].expr = <<Str("d")>>

\* the frame is at the ENDALTAR of the ALTAR block whose loop it is in
AtEndAltar == InAltar /\ Cur <= Len(Toks) /\ Toks[Cur].t = "ENDALTAR"

SealingHeader ==
    /\ InAltar /\ ev.k = "bind" /\ ev.launch
    /\ TypeAt(Toks, Cur) = "IDENT" /\ EqualFold(Toks[Cur].lx, "SEAL")
    /\ TypeAt(Toks, Cur + 1) = "STRING"

\* C28: the header ALTAR AT addr SEAL "passphrase": of the first binding is taken (the
\* service is then sealed, and an ALTAR without the passphrase adds no route); SEAL in
\* the body of an ALTAR block is an error.
C28_SealedAltar ==
    /\ [][SealingHeader => ret'.st = "none" /\ stack'[Len(stack)].altar = 1]_vars
    /\ [][(InAltar /\ ~SealingHeader /\ TypeAt(Toks, Cur) = "IDENT" /\ EqualFold(Toks[Cur].lx, "SEAL"))
            => ret'.st = "err" /\ globalAltar' = globalAltar]_vars

\* a handler has made the table of its request
Cloned == ev.k = "serve" /\ ev.route # 0 /\ globalAltar.mux[ev.route].m = ev.q.method

\* C26: the table of a request holds the visible sigils the table of the declaring
\* frame had when the ROUTE was declared, and the sigils of the request; what the
\* declaring Work binds after the ROUTE is not in it.
C26_DeclarationTime ==
    Cloned => ev.child = requestChild(globalAltar.mux[ev.route].seen, ev.q)

\* the table of the goroutine g, 0 being MAIN
TableOf(g) ==
    IF g = serving.cur THEN envs
    ELSE IF g = 0 THEN serving.parked.envs
    ELSE serving.reqs[g].envs

\* the step is a step of the Work the running goroutine runs
WorkStep == serving'.cur = serving.cur /\ ev'.k \notin {"arrive", "serve", "resume"}

\* C27: a step of the Work of a request changes the table of no other goroutine,
\* neither that of another request nor that of MAIN, and the table a handler makes for
\* its request comes from the table of the declaring frame and the request alone; so
\* the sigil b, which only the Work of a route binds, is never in the table of MAIN
\* nor in the table a request starts with, and a is there as MAIN has bound it.
C27_RequestsIsolated ==
    /\ [][WorkStep =>
            \A g \in 0..Len(serving.reqs) :
                g # serving.cur => TableOf(g)' = TableOf(g)]_vars
    /\ [][(serving.cur # 0 /\ ~WorkStep) => serving'.parked.envs = MainEnvs]_vars
    /\ [](Cloned => ev.child = requestChild(ev.parent, ev.q))
    /\ [](\A j \in 1..Len(MainEnvs) :
              /\ ~getSigil(MainEnvs[j], "b").ok
              /\ getSigil(MainEnvs[j], "a").v # "w")
    /\ [](\A g \in 1..Len(serving.reqs) :
              /\ ~getSigil(serving.reqs[g].child0, "b").ok
              /\ getSigil(serving.reqs[g].child0, "a").v # "w")

\* two requests run the Work W at once, the first having bound a and b in its table,
\* the second starting
C27_Witness ==
    /\ Len(serving.reqs) = 2
    /\ serving.reqs[1].st = "run" /\ serving.reqs[2].st = "run"
    /\ serving.cur = 2
    /\ getSigil(serving.reqs[1].envs[1], "a").v = "w"
    /\ getSigil(serving.reqs[1].envs[1], "b").ok
    /\ getSigil(envs[1], "a").v # "w"
    /\ MainAlive

\* the handlers the mux holds for a method and a path
Handlers(key) ==
    {k \in 1..Len(globalAltar.mux) :
        routeKey(globalAltar.mux[k].m, globalAltar.mux[k].pattern) = key}

\* C29: whatever the order in which the goroutines of a CHOIR bind the server and
\* declare their routes, one listener at most is started, the mux has one handler at
\* most for a method and a path, and a ROUTE is accepted when its key is not
\* registered and refused as a duplicate when it is: of the declarations of a key one
\* is accepted.
C29_Serialized ==
    /\ [](Len(globalAltar.listeners) <= 1)
    /\ [](\A k \in 1..Len(globalAltar.mux) :
              /\ Cardinality(Handlers(routeKey(globalAltar.mux[k].m, globalAltar.mux[k].pattern))) = 1
              /\ routeKey(globalAltar.mux[k].m, globalAltar.mux[k].pattern) \in globalAltar.registered)
    /\ [][(DeclaringRoute /\ ev'.t = "ROUTE") =>
            IF routeKey(RouteHere.method, RouteHere.path) \in globalAltar.registered
            THEN /\ ret'.st = "err"
                 /\ ret'.val = "ALTAR: duplicate route " \o routeKey(RouteHere.method, RouteHere.path)
                 /\ globalAltar' = globalAltar
            ELSE /\ ret'.st = "none"
                 /\ Len(globalAltar'.mux) = Len(globalAltar.mux) + 1
                 /\ globalAltar'.registered =
                       globalAltar.registered \cup {routeKey(RouteHere.method, RouteHere.path)}]_vars

\* two branches have declared GET /a at the address of the server, the one between the
\* steps of the other: the first is in its ALTAR block still and the second has been
\* refused
C29_Witness ==
    /\ choir.on
    /\ ev.k = "error" /\ ev.t = "ROUTE" /\ ev.key = "GET /a"
    /\ Cardinality(Handlers("GET /a")) = 1
    /\ \E b \in 1..Len(choir.br) :
          /\ b # choir.cur
          /\ choir.br[b].st = "run"
          /\ choir.br[b].stack # <<>>
          /\ choir.br[b].stack[Len(choir.br[b].stack)].altar = 1

\* the body of an OMEN region has returned an error that is no raised omen
BodyFailed == ev.k = "exit" /\ ev.ck = "omenBody" /\ ev.how = "err"

\* C31: when a statement in the body of an OMEN region is malformed or its
\* expression fails, the region, whatever its name, does not run its FALLS_TO_RUIN
\* body: execOmenBlock returns the error, and so does every execWork up to MAIN.
C31_StructuralNotCaught ==
    /\ [](BodyFailed => ~ev.recovery /\ ev.result = "err" /\ ret.st = "err" /\ ret.omen = "")
    /\ [][(ret.st = "err" /\ stack # <<>>) =>
            /\ ret' = ret
            /\ Len(stack') < Len(stack)
            /\ out' = out]_vars

\* the body of a region that has a FALLS_TO_RUIN body has failed on LET b BE zz
C31_Witness ==
    /\ BodyFailed /\ ev.ruin /\ ev.name = "x"
    /\ ret.st = "err" /\ stack # <<>>

\* the same on the malformed LET a, the body having run a statement before
C31_MalformedWitness ==
    /\ BodyFailed /\ ev.ruin /\ ev.name = "m"
    /\ out # <<>> /\ out[Len(out)] = "[SIC SAY] body"

\* the OMEN at j opens a region: it is not the OMEN of RAISE OMEN nor of IF OMEN
OpensRegion(tokens, j) ==
    tokens[j].t = "OMEN" /\ (j = 1 \/ tokens[j - 1].t \notin {"RAISE", "IF"})

\* the depth after the token j of a body that starts at a: 1, one more for each
\* region opened and one less for each ENDOMEN
DepthAfter(tokens, a, j) ==
    1 + Cardinality({k \in a..j : OpensRegion(tokens, k)})
      - Cardinality({k \in a..j : tokens[k].t = "ENDOMEN"})

\* the ENDOMEN of the region whose body starts at a, 0 when there is none
OwnEnd(tokens, a) ==
    IF \E j \in a..Len(tokens) : DepthAfter(tokens, a, j) = 0
    THEN CHOOSE j \in a..Len(tokens) :
             DepthAfter(tokens, a, j) = 0 /\ \A k \in a..(j - 1) : DepthAfter(tokens, a, k) > 0
    ELSE 0

\* the FALLS_TO_RUIN markers of that region: those at depth 1 before its ENDOMEN
OwnRuins(tokens, a) ==
    {j \in a..(OwnEnd(tokens, a) - 1) :
        tokens[j].t = "IDENT" /\ tokens[j].lx = "FALLS_TO_RUIN" /\ DepthAfter(tokens, a, j) = 1}

\* the OMEN statement the frame is at, its header well formed, and where its body starts
AtRegion == At("OMEN") /\ TypeAt(Toks, Cur + 1) = "STRING"
BodyStart == IF TypeAt(Toks, Cur + 2) = "COLON" THEN Cur + 3 ELSE Cur + 2

Recorded(sigils, n) ==
    (omenPrefix \o n) \in DOMAIN sigils /\ sigils[omenPrefix \o n] = "1"

AtIfOmen == At("IF") /\ TypeAt(Toks, Cur + 1) = "OMEN"
\* where the then-branch of the IF OMEN the frame is at starts
HeaderColon ==
    CHOOSE j \in Cur..Len(Toks) :
        Toks[j].t = "COLON" /\ \A k \in Cur..(j - 1) : Toks[k].t # "COLON"
ThenAt == skipNewlines(Toks, HeaderColon + 1)
\* the return of the body of a region that puts the table back at the snapshot
RollingBack == ev'.k = "exit" /\ ev'.ck = "omenBody" /\ ev'.penv = ev'.snapshot

\* C40: RAISE OMEN n records n in the table of the frame; IF OMEN n runs its
\* then-branch exactly when n is recorded in that table; the statement
\* FALLS_TO_RUIN leaves no omen recorded; and no other statement of the frame or of
\* its blocks records or clears an omen, so that n is recorded exactly when it has
\* been raised and not cleared since.
C40_RaisedUntilCleared ==
    /\ [][ev'.k = "raise" => Recorded(Sig', ev'.name)]_vars
    /\ [][(AtIfOmen /\ ev'.t = "IFOMEN") =>
            ((/\ Len(stack') = Len(stack) + 1
              /\ stack'[Len(stack')].lo = Base(Top) + ThenAt)
                <=> Recorded(Sig, Toks[Cur + 2].lx))]_vars
    /\ [][ev'.k = "ruin" => \A n \in OmenNames : (omenPrefix \o n) \notin DOMAIN Sig']_vars
    /\ [][(stack # <<>> /\ stack' # <<>> /\ ev'.k \notin {"raise", "ruin"} /\ ~RollingBack)
            => \A n \in OmenNames : Recorded(Sig', n) <=> Recorded(Sig, n)]_vars

\* x raised, a statement run, then IF OMEN "x" IS PRESENT: the then-branch has spoken
C40_Witness ==
    /\ Len(out) = 1 /\ out[1] = "[SIC SAY] px"
    /\ Recorded(Sig, "x")
    /\ "a" \in DOMAIN Sig

\* x raised and the omens cleared by FALLS_TO_RUIN: the ELSE branch has spoken
C40_ClearedWitness ==
    /\ Len(out) = 2 /\ out[1] = "[SIC RUIN] ruin" /\ out[2] = "[SIC SAY] nx"
    /\ ev.k = "say"
    /\ "x" \in stack[1].sig
    /\ ~Recorded(Sig, "x")

\* the operands of the sum of MAIN and the value b is bound to
LeftOperand == main[10]
RightOperand == main[12]
BoundB == main[4].lx
\* the text an operand stands for
TextOf(o) == IF o.t = "IDENT" THEN BoundB ELSE o.lx
\* the number an operand is read as, when it is read as one
Numerals == ("3" :> 3) @@ ("4" :> 4) @@ (" 5" :> 5)
IsNumber(o) == TextOf(o) \in DOMAIN Numerals
NumberOf(o) == Numerals[TextOf(o)]
Decimal == (6 :> "6") @@ (7 :> "7") @@ (8 :> "8") @@ (9 :> "9") @@ (10 :> "10")

\* C32: the sum of two operands that are both read as numbers is the number that is
\* their sum ("3" + "4" is "7"), and the sum of any other two operands is the text of
\* the first followed by the text of the second ("3" + "a" is "3a").
C32_Addition ==
    (ev.k = "let" /\ ev.name = "r") =>
        ev.val = IF IsNumber(LeftOperand) /\ IsNumber(RightOperand)
                 THEN Decimal[NumberOf(LeftOperand) + NumberOf(RightOperand)]
                 ELSE TextOf(LeftOperand) \o TextOf(RightOperand)

\* "3" + "4" has been bound: 7
C32_Witness ==
    /\ ev.k = "let" /\ ev.name = "r"
    /\ LeftOperand = Str("3") /\ RightOperand = Str("4")
    /\ Sig["r"] = "7"

\* "3" + "a" has been said: 3a
C32_TextWitness ==
    /\ LeftOperand = Str("3") /\ RightOperand = Str("a")
    /\ out = <<"[SIC SAY] 3a">>

\* the frame is at a LET with neither EPHEMERAL nor INVISIBLE, and binds
PlainLet == At("LET") /\ ev'.k = "let" /\ TypeAt(Toks, Cur + 1) = "IDENT" /\ Toks[Cur + 1].lx = ev'.name

BlockReturns ==
    /\ Len(stack) > 1
    /\ Top.cont.kind \in {"block", "omenBody", "whileBody"}
    /\ ev'.k = "exit" /\ Len(stack') < Len(stack)

\* C38: when a block returns, every name the enclosing frame had bound before the
\* block was entered is still bound.
C38_OuterBindingsKept ==
    [][BlockReturns => \A n \in DOMAIN Parent.lets : Has(envs'[Parent.env], n)]_vars

\* a block that bound an EPHEMERAL name of its own has returned: the name is gone and
\* the name bound before the block is still there
C38_OwnBindingScrubbed ==
    /\ ev.k = "exit" /\ ev.ck = "block" /\ ev.eph = {"e"}
    /\ stack # <<>> /\ "a" \in DOMAIN Top.lets
    /\ Has(Sig, "a") /\ ~Has(Sig, "e") /\ Has(Sig, "b")

\* C37: a ROUTE whose method and path are not registered is accepted, whatever the
\* routes of other methods at the same path: its key is registered and the mux holds
\* its handler under its method.
C37_MethodsCoexist ==
    [][(/\ DeclaringRoute /\ ev'.t = "ROUTE"
        /\ routeKey(RouteHere.method, RouteHere.path) \notin globalAltar.registered)
        => /\ ev'.k = "route"
           /\ ret'.st = "none"
           /\ routeKey(RouteHere.method, RouteHere.path) \in globalAltar'.registered
           /\ \E k \in 1..Len(globalAltar'.mux) :
                 /\ globalAltar'.mux[k].pattern = RouteHere.path
                 /\ globalAltar'.mux[k].m = RouteHere.method]_vars

\* the request g has arrived and its handler has not yet copied the table e of the
\* declaring frame, which it holds
AboutToClone(g, e) ==
    /\ serving.reqs[g].st = "new"
    /\ routeFor(globalAltar, serving.reqs[g].path) # 0
    /\ globalAltar.mux[routeFor(globalAltar, serving.reqs[g].path)].m = serving.reqs[g].method
    /\ globalAltar.mux[routeFor(globalAltar, serving.reqs[g].path)].parent = e

\* C35: the declaring Work is never at a statement that writes its table while the
\* handler of a request is to copy that table, and the process never ends on a
\* concurrent access to a table.
C35_NoSharedTable ==
    /\ ~(/\ serving.cur = 0 /\ Running /\ Toks[Cur].t \in TableWriters
         /\ \E g \in 1..Len(serving.reqs) : AboutToClone(g, Top.env))
    /\ ret.val # "fatal error: concurrent map iteration and map write"

\* a branch of the CHOIR block is running and is at the statement t, which it runs
BranchAt(t) == choir.on /\ choir.cur # 0 /\ At(t) /\ ev'.t = t

\* C34, for branches whose Work is one ENTANGLE or one RELEASE, so that the branch has
\* done nothing to the ledger before: the statement ends as the ledger at the entry of
\* the block makes it end, whatever the other branches entangle or release.
C34_LedgerPrivate ==
    /\ [][BranchAt("ENTANGLE") =>
            (ev'.k = "error" <=> Toks[Cur + 1].lx \in choir.cores0) /\ ev'.k # "fatal"]_vars
    /\ [][BranchAt("RELEASE") =>
            (ev'.k = "error" <=> Toks[Cur + 1].lx \notin choir.cores0) /\ ev'.k # "fatal"]_vars

\* the parameters of the query of the request g, and the first value of the key k
ParamsOf(g) == QueryTable[serving.reqs[g].raw]
FirstOf(g, k) ==
    ParamsOf(g)[CHOOSE n \in 1..Len(ParamsOf(g)) :
                   ParamsOf(g)[n].k = k /\ \A m \in 1..(n - 1) : ParamsOf(g)[m].k # k].v
\* the request g has been answered by the handler of its route
Handled(g) ==
    /\ serving.reqs[g].st = "done" /\ serving.reqs[g].route # 0
    /\ globalAltar.mux[serving.reqs[g].route].m = serving.reqs[g].method
\* the table of the request binds nothing that controls the reply
NoOutputControl(g) ==
    \A n \in {"response_status", "response_body", "response_content_type"} :
        ~Has(serving.reqs[g].child0, n)

C33_UpperWitness ==
    \E g \in 1..Len(serving.reqs) :
        /\ Handled(g) /\ serving.reqs[g].raw = "Name=Bob&lang=en"
        /\ serving.reqs[g].resp.body = "Hello Bob\n"
        /\ serving.reqs[g].child0["Q_LANG"] = "en"
====
